---- MODULE Spec2Model ----
(***************************************************************************)
(* Model of the request-orchestration layer of ai-floor-analysis:          *)
(*   - ApiService (src/services/api.service.ts): the browser-side client   *)
(*     with per-attempt timeout, retry and error normalisation;            *)
(*   - AiAnalyzerService (src/services/ai-analyzer.service.ts);            *)
(*   - AiChatService (src/services/ai-chat.service.ts).                    *)
(* Each service is a state machine of one call: the position of the async  *)
(* function (its pending await), its retry counter, timers and result.     *)
(***************************************************************************)
EXTENDS Integers, Sequences, FiniteSets, TLC

(***************************************************************************)
(* Bounds of the model (not program constants).                            *)
(***************************************************************************)
\* One step of the clock, in ms.
TickMs == 10000
\* How many clock steps a response body may stay pending after the
\* attempt's own timeout window has passed.
ExtraTicks == 1
\* Largest maxRetries a configuration provides.
MaxCfgRetries == 2
\* Longest previousMessages list handed to the chat service.
MaxPrev == 2
\* Requests one run of the chat route receives.
MaxRouteCalls == 2
\* sendMessage calls in one run of the hook.
MaxSends == 4
\* Milliseconds Date.now() advances in one run of the hook.
MaxNow == 1
\* Changes of the floorplanAnalysis prop in one run of the hook.
MaxChanges == 2
\* handleUpload calls in one run of the page.
MaxUploads == 2
\* generateSpeech calls one AudioMessage makes in one run.
MaxAudios == 3
\* canplaythrough events one audio element emits.
MaxCanPlay == 2
\* Chunks of a speech stream, and bytes of a chunk.
MaxChunks == 3
MaxChunkLen == 2

(***************************************************************************)
(* Values shared by the services.                                          *)
(***************************************************************************)
NoStatus == 0

NoError == [name |-> "none", message |-> "", status |-> NoStatus]

\* new ApiError(message, status)
ApiError(message, status) ==
  [name |-> "ApiError", message |-> message, status |-> status]

\* new Error(message) and the built-in errors (SyntaxError, TypeError,
\* the DOMException named AbortError): no status field.
PlainError(name, message) ==
  [name |-> name, message |-> message, status |-> NoStatus]

NoCompletion == [kind |-> "none", error |-> NoError, value |-> "none"]
Throw(e) == [kind |-> "throw", error |-> e, value |-> "none"]
Return(v) == [kind |-> "return", error |-> NoError, value |-> v]

(***************************************************************************)
(* ApiService: configuration and pure helpers.                             *)
(***************************************************************************)
DefaultTimeout == 30000
DefaultMaxRetries == 3

\* An optional field the configuration does not provide (undefined).
NotProvided == -1

\* Configurations handed to the constructor: each optional field is either
\* not provided or a number, zero included.
CfgTimeouts == {NotProvided, 0, 10000, 20000}
CfgRetries == {NotProvided} \cup (0..MaxCfgRetries)
Configs == [timeout : CfgTimeouts, maxRetries : CfgRetries]

\* x || y selects y when x is falsy: undefined and the number 0.
Falsy(x) == x \in {NotProvided, 0}

\* constructor: this.timeout = config.timeout || 30000
ApiTimeout(cfg) ==
  IF Falsy(cfg.timeout) THEN DefaultTimeout ELSE cfg.timeout
\* constructor: this.maxRetries = config.maxRetries || 3
ApiMaxRetries(cfg) ==
  IF Falsy(cfg.maxRetries) THEN DefaultMaxRetries ELSE cfg.maxRetries

Ops == {"analyzeImage", "generateSpeech", "sendChatMessage"}

MAX_FILE_SIZE == 5 * 1024 * 1024
ALLOWED_FILE_TYPES == {"image/jpeg", "image/png", "image/webp"}

NoFile == [type |-> "null", size |-> 0]
FileTypes == ALLOWED_FILE_TYPES \cup {"image/gif", ""}
FileSizes == {0, MAX_FILE_SIZE - 1, MAX_FILE_SIZE, MAX_FILE_SIZE + 1,
              6 * 1024 * 1024}
Files == [type : FileTypes, size : FileSizes] \cup {NoFile}

\* validateFile: the error it throws, or NoError when the file passes.
validateFileTooLargeMut(file) ==
  IF file = NoFile THEN PlainError("Error", "No file provided")
  ELSE IF file.type \notin ALLOWED_FILE_TYPES
    THEN PlainError("Error",
           "Unsupported file type. Please upload JPEG, PNG or WebP")
  ELSE IF file.size >= MAX_FILE_SIZE
    THEN PlainError("Error", "File is too large. Maximum size is 5MB")
  ELSE NoError

validateFile(file) ==
  IF file = NoFile THEN PlainError("Error", "No file provided")
  ELSE IF file.type \notin ALLOWED_FILE_TYPES
    THEN PlainError("Error",
           "Unsupported file type. Please upload JPEG, PNG or WebP")
  ELSE IF file.size > MAX_FILE_SIZE
    THEN PlainError("Error", "File is too large. Maximum size is 5MB")
  ELSE NoError

retryableStatuses == {408, 429, 500, 502, 503, 504}

shouldRetryAnyStatusMut(error) == error.name = "ApiError"

\* shouldRetry: error instanceof ApiError && retryableStatuses.includes(status)
shouldRetry(error) ==
  error.name = "ApiError" /\ error.status \in retryableStatuses

isAbortErrorNeverMut(error) == FALSE

\* error.name === "AbortError"
isAbortError(error) == error.name = "AbortError"

\* normalizeError: every value thrown in these functions is an Error.
normalizeError(error) == error

\* Response statuses the backend or a gateway in front of it can answer.
Statuses == {200, 400, 404, 408, 429, 500, 502, 503, 504}
\* response.ok
ResponseOk(status) == status >= 200 /\ status <= 299

\* Shapes of a response body:
\*   bad     not valid JSON (an HTML error page, an empty body)
\*   null    the JSON text null
\*   empty   the JSON object {}
\*   error   {error: <string>}
\*   payload {parsedAnalysis: ...} for analyze, {text: ...} for chat,
\*           audio bytes for tts
\*   fail    the body stream breaks while it is read
\* A body: its kind and, for kind "error", the string of its member error.
Body(kind, error) == [kind |-> kind, error |-> error]
Bodies ==
  {Body(k, "") : k \in {"bad", "null", "empty", "payload", "fail"}}
    \cup {Body("error", "server error")}
NoResp == [status |-> NoStatus, body |-> Body("none", "")]

\* data.error || fallback (the empty string is falsy)
ErrorMessage(body, fallback) ==
  IF body.kind = "error" /\ body.error # "" THEN body.error ELSE fallback

\* analyzeImage, lines 84-93: from response.json() settling to the return.
AnalyzeAfterBody(status, body) ==
  IF body.kind = "bad" THEN Throw(PlainError("SyntaxError", "Unexpected token"))
  ELSE IF body.kind = "fail" THEN Throw(PlainError("TypeError", "Failed to fetch"))
  ELSE IF ~ResponseOk(status)
    THEN IF body.kind = "null"
           THEN Throw(PlainError("TypeError", "Cannot read properties of null"))
           ELSE Throw(ApiError(ErrorMessage(body, "Failed to analyze image"),
                               status))
  ELSE IF body.kind = "null"
    THEN Throw(PlainError("TypeError", "Cannot read properties of null"))
  ELSE IF body.kind # "payload"
    THEN Throw(PlainError("Error", "Invalid response format"))
  ELSE Return("parsedAnalysis")

\* sendChatMessage, lines 208-217.
ChatAfterBody(status, body) ==
  IF body.kind = "bad" THEN Throw(PlainError("SyntaxError", "Unexpected token"))
  ELSE IF body.kind = "fail" THEN Throw(PlainError("TypeError", "Failed to fetch"))
  ELSE IF body.kind = "null"
    THEN Throw(PlainError("TypeError", "Cannot read properties of null"))
  ELSE IF ~ResponseOk(status)
    THEN Throw(ApiError(ErrorMessage(body, "Failed to send chat message"),
                        status))
  ELSE IF body.kind = "payload" THEN Return("text")
  ELSE Return("undefined")

\* generateSpeech, lines 139-144: the status is checked before the body
\* is touched.
SpeechAfterHeaders(status) ==
  IF ~ResponseOk(status)
    THEN Throw(ApiError("Failed to generate speech", status))
    ELSE NoCompletion

\* generateSpeech, line 146: response.blob() settling.
SpeechAfterBody(body) ==
  IF body.kind = "fail" THEN Throw(PlainError("TypeError", "Failed to fetch"))
  ELSE Return("blob")

\* delay before retry number retryCount + 1
RetryDelay(rc) == 1000 * (rc + 1)

(***************************************************************************)
(* AiAnalyzerService and AiChatService: provider outcomes and helpers.     *)
(***************************************************************************)
\* new OpenAI.APIError: status is NoStatus for connection errors.
ProviderApiError(status) ==
  [name |-> "APIError", message |-> "provider error", status |-> status]

\* error instanceof OpenAI.APIError
IsProviderApiError(error) == error.name = "APIError"

ProviderStatuses == {NoStatus, 400, 401, 429, 500, 502, 503}

ScoreNames == {"lighting", "space", "flow", "accessibility"}

\* A property of the scores object: a number, a value that is not a
\* number (a string), or no such key.
Num(n) == [t |-> "num", v |-> n]
NotANumber == [t |-> "str", v |-> 0]
Absent == [t |-> "absent", v |-> 0]
ScoreEntries == {Num(0 - 1), Num(0), Num(100), Num(101), NotANumber, Absent}

\* The scores field of the parsed JSON: absent (or null), or an object
\* holding some of the four keys.
NoScores == [kind |-> "absent", vals |-> [n \in ScoreNames |-> Absent]]
ScoresFields ==
  {NoScores} \cup [kind : {"object"}, vals : [ScoreNames -> ScoreEntries]]

\* The recommendations field: absent (or null), [] or a non-empty array.
RecsFields == {"absent", "array0", "array1"}

NoAnalysis == [scores |-> NoScores, recommendations |-> "absent"]

\* The JSON values a content string can denote: null, a number, or an
\* object with the two fields above.
JsonValues ==
  [type : {"null", "number"}, obj : {NoAnalysis}]
  \cup [type : {"object"},
        obj : [scores : ScoresFields, recommendations : RecsFields]]

\* choices[0].message.content of the vision provider: empty (or null), a
\* text that is not JSON, or a JSON text.
AnContents ==
  [text : {"empty", "bad"}, json : {[type |-> "null", obj |-> NoAnalysis]}]
  \cup [text : {"json"}, json : JsonValues]

FinishReasons == {"stop", "length", "content_filter"}

NoContent == [text |-> "empty", json |-> [type |-> "null", obj |-> NoAnalysis]]

\* What one call of openai.chat.completions.create settles with:
\*   apiError  rejects with an OpenAI.APIError of the given status
\*   error     rejects with another error
\*   response  resolves; choices is "none" (missing or empty) or "one"
AnOutcomes ==
  [kind : {"apiError"}, status : ProviderStatuses, choices : {"none"},
   finish : {"stop"}, content : {NoContent}]
  \cup [kind : {"error"}, status : {NoStatus}, choices : {"none"},
        finish : {"stop"}, content : {NoContent}]
  \cup [kind : {"response"}, status : {NoStatus}, choices : {"none"},
        finish : {"stop"}, content : {NoContent}]
  \cup [kind : {"response"}, status : {NoStatus}, choices : {"one"},
        finish : FinishReasons, content : AnContents]

NoOutcome == [kind |-> "none", status |-> NoStatus, choices |-> "none",
              finish |-> "stop", content |-> NoContent]

AnThrow(e) == [kind |-> "throw", error |-> e, value |-> NoAnalysis]
AnReturn(a) == [kind |-> "return", error |-> NoError, value |-> a]
AnNoCompletion == [kind |-> "none", error |-> NoError, value |-> NoAnalysis]

AN_MAX_RETRIES == 2
AN_RETRY_DELAY == 500

\* Object.values(scores)
ObjectValues(scores) ==
  IF scores.kind = "object"
    THEN {scores.vals[n] : n \in {k \in ScoreNames : scores.vals[k] # Absent}}
    ELSE {}

\* areaScoreValid: every value of the scores object is a number in [0,100]
areaScoreValid(scores) ==
  \A e \in ObjectValues(scores) : e.t = "num" /\ e.v >= 0 /\ e.v <= 100

emptyResponse ==
  [scores |-> [kind |-> "object", vals |-> [n \in ScoreNames |-> Num(0)]],
   recommendations |-> "array0"]

\* analyzeImage, lines 112-145: the checks on a provider outcome.
AnalyzerTry(o) ==
  IF o.kind = "apiError" THEN AnThrow(ProviderApiError(o.status))
  ELSE IF o.kind = "error"
    THEN AnThrow(PlainError("Error", "Connection error"))
  ELSE IF o.choices = "none"
    THEN AnThrow(PlainError("Error", "No response received from OpenAI"))
  ELSE IF o.finish = "length"
    THEN AnThrow(PlainError("Error",
                            "The response is too long. Please try again."))
  ELSE IF o.finish = "content_filter"
    THEN AnThrow(PlainError("Error",
                   "The response was filtered due to content restrictions"))
  ELSE IF o.content.text = "empty"
    THEN AnThrow(PlainError("Error", "Empty response received"))
  ELSE IF o.content.text = "bad"
    THEN AnThrow(PlainError("Error", "Invalid JSON response received"))
  ELSE IF o.content.json.type = "null"
    THEN AnThrow(PlainError("TypeError", "Cannot read properties of null"))
  ELSE IF o.content.json.obj.scores.kind = "absent"
          \/ o.content.json.obj.recommendations = "absent"
    THEN AnThrow(PlainError("Error", "Invalid JSON structure"))
  ELSE IF ~areaScoreValid(o.content.json.obj.scores)
    THEN AnThrow(PlainError("Error", "Scores are outside valid range (0-100)"))
  ELSE AnReturn(o.content.json.obj)

AnShouldRetryAny5xxMut(error) ==
  IsProviderApiError(error) /\ (error.status = 429 \/ error.status >= 500)

\* AiAnalyzerService.shouldRetry
AnShouldRetry(error) ==
  IsProviderApiError(error) /\ (error.status = 429 \/ error.status = 500)

AnCatchEndRethrowMut(error) == AnThrow(error)

\* analyzeImage, lines 153-154: the error is logged and the sentinel returned.
AnCatchEnd(error) == AnReturn(emptyResponse)

AnRetryDelay(rc) == AN_RETRY_DELAY * (rc + 1)

\* choices[0].message.content of the chat provider.
ChContents == {"empty", "text"}

ChOutcomes ==
  [kind : {"apiError"}, status : ProviderStatuses, choices : {"none"},
   finish : {"stop"}, content : {"empty"}]
  \cup [kind : {"error"}, status : {NoStatus}, choices : {"none"},
        finish : {"stop"}, content : {"empty"}]
  \cup [kind : {"response"}, status : {NoStatus}, choices : {"none"},
        finish : {"stop"}, content : {"empty"}]
  \cup [kind : {"response"}, status : {NoStatus}, choices : {"one"},
        finish : FinishReasons, content : ChContents]

ChNoOutcome == [kind |-> "none", status |-> NoStatus, choices |-> "none",
                finish |-> "stop", content |-> "empty"]

CH_MAX_RETRIES == 3
CH_RETRY_DELAY == 1000

\* Arguments of generateResponse.
Messages == {"what about the kitchen?", "and the hallway?"}
Senders == {"user", "assistant"}
Texts == {"hi", "ok"}
HookTexts == {"what about the kitchen?"}
PrevMessages ==
  UNION {[1..n -> [sender : Senders, text : Texts]] : n \in 0..MaxPrev}
ChatAnalyses ==
  {emptyResponse,
   [scores |-> [kind |-> "object",
                vals |-> [n \in ScoreNames |->
                            IF n = "lighting" THEN Num(100) ELSE Num(0)]],
    recommendations |-> "array1"]}
ChatContexts == [analysis : ChatAnalyses, previousMessages : PrevMessages]
NoContext == [analysis |-> emptyResponse, previousMessages |-> <<>>]

\* JSON.stringify(analysis, null, 2): the text lists the fields in order.
JSONstringify(a) ==
  <<"{", "scores", a.scores.vals["lighting"], a.scores.vals["space"],
    a.scores.vals["flow"], a.scores.vals["accessibility"],
    "recommendations", a.recommendations, "}">>

\* createSystemPrompt
createSystemPrompt(analysis) ==
  [head |-> "You are an expert in analyzing floor plans",
   json |-> JSONstringify(analysis),
   tail |-> "Answer the user's questions ONLY in the context of this plan"]

NoPrompt == [head |-> "", json |-> JSONstringify(emptyResponse), tail |-> ""]

\* formatPreviousMessages
formatPreviousMessagesReversedMut(messages) ==
  [i \in 1..Len(messages) |->
     [role |-> IF messages[Len(messages) + 1 - i].sender = "user"
                 THEN "user" ELSE "assistant",
      system |-> NoPrompt,
      content |-> messages[Len(messages) + 1 - i].text]]
formatPreviousMessages(messages) ==
  [i \in 1..Len(messages) |->
     [role |-> IF messages[i].sender = "user" THEN "user" ELSE "assistant",
      system |-> NoPrompt,
      content |-> messages[i].text]]

\* generateResponse, lines 66-73: the messages of the provider request.
ChatRequest(message, context) ==
  <<[role |-> "system", system |-> createSystemPrompt(context.analysis),
     content |-> ""]>>
  \o formatPreviousMessages(context.previousMessages)
  \o <<[role |-> "user", system |-> NoPrompt, content |-> message]>>

\* generateResponse, lines 78-97: the checks on a provider outcome.
ChatTry(o) ==
  IF o.kind = "apiError" THEN Throw(ProviderApiError(o.status))
  ELSE IF o.kind = "error"
    THEN Throw(PlainError("Error", "Connection error"))
  ELSE IF o.choices = "none"
    THEN Throw(PlainError("Error", "No response received from OpenAI"))
  ELSE IF o.finish = "length"
    THEN Throw(PlainError("Error", "The response is too long"))
  ELSE IF o.finish = "content_filter"
    THEN Throw(PlainError("Error", "The response was filtered"))
  ELSE IF o.content = "empty"
    THEN Throw(PlainError("Error", "Empty response received"))
  ELSE Return(o.content)

ChShouldRetryAnyApiErrorMut(error) == IsProviderApiError(error)

\* AiChatService.shouldRetry
ChShouldRetry(error) ==
  IsProviderApiError(error) /\ (error.status = 429 \/ error.status >= 500)

\* generateResponse, lines 104-105: the error is logged and rethrown.
ChCatchEnd(error) == Throw(error)

\* Exponential backoff in place of the linear one.
ChRetryDelayExponentialMut(rc) == CH_RETRY_DELAY * (2 ^ rc)
\* line 101: this.RETRY_DELAY * (retryCount + 1)
ChRetryDelay(rc) == CH_RETRY_DELAY * (rc + 1)


(***************************************************************************)
(* State.                                                                  *)
(***************************************************************************)
VARIABLES
  \* ApiService
  config,      \* the ApiServiceConfig given to the constructor
  op,          \* the operation called, "none" before the call
  file,        \* the File argument of analyzeImage
  apc,         \* position of the call: idle, fetch (await fetch), body
               \* (await json()/blob()), delay, resolved, rejected
  retryCount,  \* the retryCount argument of the running activation
  requests,    \* fetch calls issued by the call
  responses,   \* responses (headers) received by the call
  only429,     \* every response so far had status 429
  delays,      \* the arguments of the delay() calls made, in order
  timer,       \* timeout timer of the current attempt:
               \* none, armed, cleared, fired
  aborted,     \* controller.abort() ran for the current attempt
  elapsed,     \* ms since the current attempt's request was issued
  waited,      \* ms since the current delay() started
  resp,        \* the response of the current attempt
  caught,      \* the error the last run of the catch block received
  result,      \* how the call settled
  \* AiAnalyzerService
  anPc,        \* idle, create (await create), delay, resolved, rejected
  anRetry,     \* the retryCount argument of the running activation
  anRequests,  \* provider requests issued by the call
  anDelays,    \* the arguments of the delay() calls made, in order
  anWaited,    \* ms since the current delay() started
  anOutcome,   \* what the last provider request settled with
  anCaught,    \* the error the last run of the catch block received
  anResult,    \* how the call settled
  \* AiChatService
  chMessage,   \* the message argument
  chContext,   \* the context argument
  chSent,      \* the messages of the last provider request
  chPc,
  chRetry,
  chRequests,
  chDelays,
  chWaited,
  chOutcome,
  chCaught,
  chResult,
  \* The chat route (POST /api/chat)
  rtPc,        \* idle, service (await generateResponse), done
  rtReq,       \* the request body the handler received
  rtResp,      \* the response the handler returned
  rtCalls,     \* requests the handler has received
  rtInvoked,   \* generateResponse was called for the current request
  provPrior,   \* provider requests made for earlier requests
  rtFailAt,    \* provider requests made when a content failure first
               \* reached the handler's catch block (0: none yet)
  \* The analyze route (POST /api/analyze)
  arPc,        \* idle, service (await analyzeImage), done
  arReq,       \* the request the handler received
  arResp,      \* the response the handler returned
  arInvoked,   \* analyzeImage was called for the request
  \* useFloorPlanChat
  hkAnalysis,  \* the floorplanAnalysis prop (NoAnalysis: null)
  hkMessages,  \* the messages state
  hkIsTyping,  \* the isTyping state
  hkCalls,     \* the sendMessage calls made, in order
  hkNow,       \* Date.now()
  hkCreated,   \* ChatMessage objects created so far
  hkChanges,   \* changes of the floorplanAnalysis prop so far
  \* The speak route (POST /api/tts)
  ttsPc,       \* idle, reading (in the loop of getAudioBuffer), done
  ttsStream,   \* the chunks the stream has still to deliver
  ttsChunks,   \* the chunks array of getAudioBuffer
  ttsResp,     \* the response the handler returned
  \* AudioMessage
  auIsPlaying, \* the isPlaying state
  auIsLoading, \* the isLoading state
  auRef,       \* audioRef.current: index into auElems, 0 for null
  auElems,     \* the Audio elements created, in order
  auPending,   \* handlePlay calls awaiting generateSpeech
  auRequests,  \* generateSpeech calls made so far
  auMounted,   \* the component is mounted
  \* Home
  hmImageUrl,    \* the imageUrl state: an object URL, 0 for null
  hmAnalysis,    \* the analysis state (NoAnalysis: null)
  hmActiveTab,   \* the activeTab state
  hmIsAnalyzing, \* the isAnalyzing state
  hmIsUploaded,  \* the isUploaded state
  hmCalls,       \* the handleUpload calls made, in order
  hmRevoked,     \* the object URLs revoked so far
  hmToasts,      \* rejection toasts shown so far
  \* UploadArea
  upFile,      \* the file last chosen in the upload area (NoFile: none)
  upError,     \* the uploadError state ("null" for null)
  \* One chat turn end to end
  e2eArgs,     \* the arguments of the sendChatMessage call
  rtServed     \* the number of the last request that reached the route

apiVars == <<config, op, file, apc, retryCount, requests, responses, only429,
             delays, timer, aborted, elapsed, waited, resp, caught, result>>

anVars == <<anPc, anRetry, anRequests, anDelays, anWaited, anOutcome,
            anCaught, anResult>>

chVars == <<chMessage, chContext, chSent, chPc, chRetry, chRequests, chDelays, chWaited, chOutcome,
            chCaught, chResult>>

rtVars == <<rtPc, rtReq, rtResp, rtCalls, rtInvoked, provPrior, rtFailAt>>

e2eVars == <<e2eArgs, rtServed>>

arVars == <<arPc, arReq, arResp, arInvoked>>

hkVars == <<hkAnalysis, hkMessages, hkIsTyping, hkCalls, hkNow, hkCreated,
            hkChanges>>

ttsVars == <<ttsPc, ttsStream, ttsChunks, ttsResp>>

auVars == <<auIsPlaying, auIsLoading, auRef, auElems, auPending, auRequests,
            auMounted>>

hmVars == <<hmImageUrl, hmAnalysis, hmActiveTab, hmIsAnalyzing, hmIsUploaded,
            hmCalls, hmRevoked, hmToasts>>

upVars == <<upFile, upError>>

restVars == <<rtVars, e2eVars, arVars, hkVars, ttsVars, auVars, hmVars,
              upVars>>

\* What the actions of one group leave alone besides the three services.
rtFrame == <<e2eVars, arVars, hkVars, ttsVars, auVars, hmVars, upVars>>
e2eFrame == <<arVars, hkVars, ttsVars, auVars, hmVars, upVars>>
arFrame == <<rtVars, e2eVars, hkVars, ttsVars, auVars, hmVars, upVars>>
hkFrame == <<rtVars, e2eVars, arVars, ttsVars, auVars, hmVars, upVars>>
ttsFrame == <<rtVars, e2eVars, arVars, hkVars, auVars, hmVars, upVars>>
auFrame == <<rtVars, e2eVars, arVars, hkVars, ttsVars, hmVars, upVars>>
hmFrame == <<rtVars, e2eVars, arVars, hkVars, ttsVars, auVars, upVars>>
upFrame == <<rtVars, e2eVars, arVars, hkVars, ttsVars, auVars>>

vars == <<apiVars, anVars, chVars, restVars>>

timeout == ApiTimeout(config)
maxRetries == ApiMaxRetries(config)

(***************************************************************************)
(* ApiService: the operations.                                             *)
(***************************************************************************)
\* The state of a service constructed with configuration cfg.
ApiStart(cfg) ==
  /\ config = cfg
  /\ op = "none"
  /\ file = NoFile
  /\ apc = "idle"
  /\ retryCount = 0
  /\ requests = 0
  /\ responses = 0
  /\ only429 = TRUE
  /\ delays = <<>>
  /\ timer = "none"
  /\ aborted = FALSE
  /\ elapsed = 0
  /\ waited = 0
  /\ resp = NoResp
  /\ caught = NoError
  /\ result = NoCompletion

ApiInit == \E cfg \in Configs : ApiStart(cfg)

\* The instance the module exports.
apiService == ApiStart([timeout |-> 30000, maxRetries |-> 3])

\* The catch block (lines 94-108, 147-161 and 218-232 are the same text):
\* an AbortError becomes Error("Request timeout"); a retryable error with
\* retries left starts the delay; anything else is logged and rethrown.
Catch(error, rc) ==
  /\ caught' = error
  /\ IF isAbortError(error)
       THEN /\ apc' = "rejected"
            /\ result' = Throw(PlainError("Error", "Request timeout"))
            /\ UNCHANGED <<delays, waited>>
     ELSE IF shouldRetry(error) /\ rc < maxRetries
       THEN /\ apc' = "delay"
            /\ delays' = Append(delays, RetryDelay(rc))
            /\ waited' = 0
            /\ UNCHANGED result
     ELSE /\ apc' = "rejected"
          /\ result' = Throw(normalizeError(error))
          /\ UNCHANGED <<delays, waited>>

\* The activation (o, f, rc) runs from its entry to its first await:
\* validateFile (analyzeImage only), the timer, the fetch.
BeginAttempt(o, f, rc) ==
  /\ retryCount' = rc
  /\ resp' = NoResp
  /\ IF o = "analyzeImage" /\ validateFile(f) # NoError
       THEN /\ Catch(validateFile(f), rc)
            /\ UNCHANGED <<requests, timer, aborted, elapsed>>
       ELSE /\ timer' = "armed"
            /\ aborted' = FALSE
            /\ elapsed' = 0
            /\ requests' = requests + 1
            /\ apc' = "fetch"
            /\ UNCHANGED <<caught, result, delays, waited>>

\* A caller invokes one of the three operations.
ApiCall ==
  /\ apc = "idle"
  /\ \E o \in Ops, f \in Files :
       /\ (o # "analyzeImage" => f = NoFile)
       /\ op' = o
       /\ file' = f
       /\ BeginAttempt(o, f, 0)
  /\ UNCHANGED <<config, responses, only429>>
  /\ UNCHANGED <<anVars, chVars, restVars>>

\* Time passes while the call waits: for the response (not beyond the
\* deadline of an armed timer), for the body, or in delay(); and after the
\* call has settled, while the timer of its last attempt is still armed.
Tick ==
  /\ \/ /\ apc = "fetch"
        /\ elapsed < timeout
        /\ elapsed' = elapsed + TickMs
        /\ UNCHANGED waited
     \/ /\ apc \in {"resolved", "rejected"}
        /\ timer = "armed"
        /\ elapsed < timeout
        /\ elapsed' = elapsed + TickMs
        /\ UNCHANGED waited
     \/ /\ apc = "body"
        /\ elapsed < timeout + ExtraTicks * TickMs
        /\ elapsed' = elapsed + TickMs
        /\ UNCHANGED waited
     \/ /\ apc = "delay"
        /\ waited < delays[Len(delays)]
        /\ waited' = waited + TickMs
        /\ UNCHANGED elapsed
  /\ UNCHANGED <<config, op, file, apc, retryCount, requests, responses,
                 only429, delays, timer, aborted, resp, caught, result>>
  /\ UNCHANGED <<anVars, chVars, restVars>>

\* fetch resolves with a response: clearTimeout, then the body is awaited
\* (generateSpeech first checks response.ok).
FetchRespondsWith(s, b) ==
  /\ apc = "fetch"
  /\ resp' = [status |-> s, body |-> b]
  /\ only429' = (only429 /\ s = 429)
  /\ IF op = "generateSpeech" /\ SpeechAfterHeaders(s).kind = "throw"
       THEN Catch(SpeechAfterHeaders(s).error, retryCount)
       ELSE /\ apc' = "body"
            /\ UNCHANGED <<caught, result, delays, waited>>
  /\ responses' = responses + 1
  /\ timer' = "cleared"
  /\ UNCHANGED <<config, op, file, retryCount, requests, aborted, elapsed>>

\* The server is any server: every status with every body.
FetchResponds ==
  /\ \E s \in Statuses, b \in Bodies : FetchRespondsWith(s, b)
  /\ UNCHANGED <<anVars, chVars, restVars>>

\* fetch rejects without a response (network failure): the catch block
\* runs, clearTimeout does not.
FetchFails ==
  /\ apc = "fetch"
  /\ Catch(PlainError("TypeError", "Failed to fetch"), retryCount)
  /\ UNCHANGED <<config, op, file, retryCount, requests, responses, only429,
                 timer, aborted, elapsed, resp>>
  /\ UNCHANGED <<anVars, chVars, restVars>>

\* The timeout timer fires: the callback runs controller.abort(). While
\* fetch is pending that rejects it with an AbortError; after fetch has
\* rejected on its own (the catch block does not clear the timer) the
\* abort reaches nothing.
TimerFires ==
  /\ timer = "armed"
  /\ elapsed >= timeout
  /\ timer' = "fired"
  /\ aborted' = TRUE
  /\ IF apc = "fetch"
       THEN Catch(PlainError("AbortError", "The operation was aborted"),
                  retryCount)
       ELSE UNCHANGED <<apc, caught, result, delays, waited>>
  /\ UNCHANGED <<config, op, file, retryCount, requests, responses, only429,
                 elapsed, resp>>
  /\ UNCHANGED <<anVars, chVars, restVars>>

AfterBody ==
  IF op = "analyzeImage" THEN AnalyzeAfterBody(resp.status, resp.body)
  ELSE IF op = "sendChatMessage" THEN ChatAfterBody(resp.status, resp.body)
  ELSE SpeechAfterBody(resp.body)

\* response.json() / response.blob() settles.
BodySettles ==
  /\ apc = "body"
  /\ IF AfterBody.kind = "throw"
       THEN Catch(AfterBody.error, retryCount)
       ELSE /\ apc' = "resolved"
            /\ result' = AfterBody
            /\ UNCHANGED <<caught, delays, waited>>
  /\ UNCHANGED <<config, op, file, retryCount, requests, responses, only429,
                 timer, aborted, elapsed, resp>>
  /\ UNCHANGED <<anVars, chVars, restVars>>

\* delay() resolves: the function calls itself with retryCount + 1.
DelayElapsed ==
  /\ apc = "delay"
  /\ waited >= delays[Len(delays)]
  /\ BeginAttempt(op, file, retryCount + 1)
  /\ UNCHANGED <<config, op, file, responses, only429>>
  /\ UNCHANGED <<anVars, chVars, restVars>>

ApiNext ==
  \/ ApiCall
  \/ Tick
  \/ FetchResponds
  \/ FetchFails
  \/ TimerFires
  \/ BodySettles
  \/ DelayElapsed

(***************************************************************************)
(* AiAnalyzerService.analyzeImage.                                         *)
(***************************************************************************)
AnInit ==
  /\ anPc = "idle"
  /\ anRetry = 0
  /\ anRequests = 0
  /\ anDelays = <<>>
  /\ anWaited = 0
  /\ anOutcome = NoOutcome
  /\ anCaught = NoError
  /\ anResult = AnNoCompletion

\* The route calls analyzeImage(imageUrl): the provider request is issued.
AnCall ==
  /\ anPc = "idle"
  /\ anPc' = "create"
  /\ anRequests' = anRequests + 1
  /\ UNCHANGED <<anRetry, anDelays, anWaited, anOutcome, anCaught, anResult>>
  /\ UNCHANGED <<apiVars, chVars, restVars>>

\* The provider request settles: the checks of the try block run and, on a
\* throw, the catch block (lines 146-155).
AnProviderSettles ==
  /\ anPc = "create"
  /\ \E o \in AnOutcomes :
       /\ anOutcome' = o
       /\ IF AnalyzerTry(o).kind = "return"
            THEN /\ anPc' = "resolved"
                 /\ anResult' = AnalyzerTry(o)
                 /\ UNCHANGED <<anCaught, anDelays, anWaited>>
          ELSE IF anRetry < AN_MAX_RETRIES
                  /\ AnShouldRetry(AnalyzerTry(o).error)
            THEN /\ anCaught' = AnalyzerTry(o).error
                 /\ anPc' = "delay"
                 /\ anDelays' = Append(anDelays, AnRetryDelay(anRetry))
                 /\ anWaited' = 0
                 /\ UNCHANGED anResult
          ELSE /\ anCaught' = AnalyzerTry(o).error
               /\ anResult' = AnCatchEnd(AnalyzerTry(o).error)
               /\ anPc' = (IF AnCatchEnd(AnalyzerTry(o).error).kind = "return"
                             THEN "resolved" ELSE "rejected")
               /\ UNCHANGED <<anDelays, anWaited>>
  /\ UNCHANGED <<anRetry, anRequests>>
  /\ UNCHANGED <<apiVars, chVars, restVars>>

\* Time passes in delay().
AnTick ==
  /\ anPc = "delay"
  /\ anWaited < anDelays[Len(anDelays)]
  /\ anWaited' = anWaited + TickMs
  /\ UNCHANGED <<anPc, anRetry, anRequests, anDelays, anOutcome, anCaught,
                 anResult>>
  /\ UNCHANGED <<apiVars, chVars, restVars>>

\* delay() resolves: analyzeImage(imageUrl, retryCount + 1).
AnDelayElapsed ==
  /\ anPc = "delay"
  /\ anWaited >= anDelays[Len(anDelays)]
  /\ anRetry' = anRetry + 1
  /\ anRequests' = anRequests + 1
  /\ anPc' = "create"
  /\ UNCHANGED <<anDelays, anWaited, anOutcome, anCaught, anResult>>
  /\ UNCHANGED <<apiVars, chVars, restVars>>

AnNext ==
  \/ AnCall
  \/ AnProviderSettles
  \/ AnTick
  \/ AnDelayElapsed

(***************************************************************************)
(* AiChatService.generateResponse.                                         *)
(***************************************************************************)
ChInit ==
  /\ chMessage = ""
  /\ chContext = NoContext
  /\ chSent = <<>>
  /\ chPc = "idle"
  /\ chRetry = 0
  /\ chRequests = 0
  /\ chDelays = <<>>
  /\ chWaited = 0
  /\ chOutcome = ChNoOutcome
  /\ chCaught = NoError
  /\ chResult = NoCompletion

\* The route calls generateResponse(message, context).
\* A fresh activation generateResponse(m, c) with retryCount = 0: the first
\* provider request is issued.
ChStart(m, c) ==
  /\ chMessage' = m
  /\ chContext' = c
  /\ chSent' = ChatRequest(m, c)
  /\ chPc' = "create"
  /\ chRetry' = 0
  /\ chRequests' = 1
  /\ chDelays' = <<>>
  /\ chWaited' = 0
  /\ chOutcome' = ChNoOutcome
  /\ chCaught' = NoError
  /\ chResult' = NoCompletion

ChCall ==
  /\ chPc = "idle"
  /\ \E m \in Messages, c \in ChatContexts : ChStart(m, c)
  /\ UNCHANGED <<apiVars, anVars, restVars>>

\* The provider request settles: the checks of the try block run and, on a
\* throw, the catch block (lines 99-106).
ChProviderSettles ==
  /\ chPc = "create"
  /\ \E o \in ChOutcomes :
       /\ chOutcome' = o
       /\ IF ChatTry(o).kind = "return"
            THEN /\ chPc' = "resolved"
                 /\ chResult' = ChatTry(o)
                 /\ UNCHANGED <<chCaught, chDelays, chWaited>>
          ELSE IF chRetry < CH_MAX_RETRIES /\ ChShouldRetry(ChatTry(o).error)
            THEN /\ chCaught' = ChatTry(o).error
                 /\ chPc' = "delay"
                 /\ chDelays' = Append(chDelays, ChRetryDelay(chRetry))
                 /\ chWaited' = 0
                 /\ UNCHANGED chResult
          ELSE /\ chCaught' = ChatTry(o).error
               /\ chResult' = ChCatchEnd(ChatTry(o).error)
               /\ chPc' = (IF ChCatchEnd(ChatTry(o).error).kind = "return"
                             THEN "resolved" ELSE "rejected")
               /\ UNCHANGED <<chDelays, chWaited>>
  /\ UNCHANGED <<chMessage, chContext, chSent, chRetry, chRequests>>
  /\ UNCHANGED <<apiVars, anVars, restVars>>

\* Time passes in delay().
ChTick ==
  /\ chPc = "delay"
  /\ chWaited < chDelays[Len(chDelays)]
  /\ chWaited' = chWaited + TickMs
  /\ UNCHANGED <<chMessage, chContext, chSent, chPc, chRetry, chRequests,
                 chDelays, chOutcome, chCaught, chResult>>
  /\ UNCHANGED <<apiVars, anVars, restVars>>

\* delay() resolves: generateResponse(message, context, retryCount + 1).
ChDelayElapsed ==
  /\ chPc = "delay"
  /\ chWaited >= chDelays[Len(chDelays)]
  /\ chRetry' = chRetry + 1
  /\ chRequests' = chRequests + 1
  /\ chSent' = ChatRequest(chMessage, chContext)
  /\ chPc' = "create"
  /\ UNCHANGED <<chMessage, chContext, chDelays, chWaited, chOutcome,
                 chCaught, chResult>>
  /\ UNCHANGED <<apiVars, anVars, restVars>>

ChNext ==
  \/ ChCall
  \/ ChProviderSettles
  \/ ChTick
  \/ ChDelayElapsed

(***************************************************************************)
(* The chat route: POST /api/chat (src/app/api/chat/route.ts).             *)
(***************************************************************************)
\* Request bodies: text that is not JSON ("bad"), the JSON text null, or an
\* object with or without the members message and context (message may be
\* the empty string).
RouteMessages == {"", "what about the kitchen?"}
RouteContexts ==
  {NoContext,
   [analysis |-> emptyResponse,
    previousMessages |-> <<[sender |-> "assistant", text |-> "hi"],
                           [sender |-> "user", text |-> "ok"]>>]}
ChatRouteRequests ==
  [kind : {"bad", "null"}, hasMessage : {FALSE}, message : {""},
   hasContext : {FALSE}, context : {NoContext}]
  \cup [kind : {"object"}, hasMessage : {FALSE}, message : {""},
        hasContext : {FALSE}, context : {NoContext}]
  \cup [kind : {"object"}, hasMessage : {FALSE}, message : {""},
        hasContext : {TRUE}, context : RouteContexts]
  \cup [kind : {"object"}, hasMessage : {TRUE}, message : RouteMessages,
        hasContext : {FALSE}, context : {NoContext}]
  \cup [kind : {"object"}, hasMessage : {TRUE}, message : RouteMessages,
        hasContext : {TRUE}, context : RouteContexts]

NoRouteRequest == [kind |-> "none", hasMessage |-> FALSE, message |-> "",
                   hasContext |-> FALSE, context |-> NoContext]

\* NextResponse.json(body, {status}).
RouteJson(status, kind, text) ==
  [status |-> status, kind |-> kind, text |-> text]
NoRouteResponse == RouteJson(NoStatus, "none", "")

\* !message and !context of lines 39 and 44.
MessageMissingOnlyAbsentMut(req) == ~req.hasMessage
MessageMissing(req) == ~req.hasMessage \/ req.message = ""
ContextMissing(req) == ~req.hasContext

\* The handler up to the call of the service: the response it returns
\* there, or NoRouteResponse when it goes on to generateResponse. req.json()
\* throws on text that is not JSON and the destructuring throws on null;
\* both reach the catch block.
ChatRouteEarly(req) ==
  IF req.kind \in {"bad", "null"}
    THEN RouteJson(500, "error", "Failed to process chat message.")
  ELSE IF MessageMissing(req)
    THEN RouteJson(400, "error", "Message is required")
  ELSE IF ContextMissing(req)
    THEN RouteJson(400, "error", "Context is required")
  ELSE NoRouteResponse

\* The handler after generateResponse settled (lines 50-62).
ChatRouteLate(res) ==
  IF res.kind = "return"
    THEN RouteJson(200, "text", res.value)
    ELSE RouteJson(500, "error", "Failed to process chat message.")

\* A provider outcome that is a content failure: the answer was filtered,
\* truncated or empty.
ContentFailure(o) ==
  /\ o.kind = "response"
  /\ o.choices = "one"
  /\ (o.finish \in {"length", "content_filter"} \/ o.content = "empty")

ProviderTotal == provPrior + chRequests

RouteInit ==
  /\ rtPc = "idle"
  /\ rtReq = NoRouteRequest
  /\ rtResp = NoRouteResponse
  /\ rtCalls = 0
  /\ rtInvoked = FALSE
  /\ provPrior = 0
  /\ rtFailAt = 0

\* POST runs for the request body req up to its first await that can
\* take time: it returns early or calls generateResponse.
ChatRoutePost(req) ==
  /\ rtPc \in {"idle", "done"}
  /\ rtReq' = req
  /\ rtCalls' = rtCalls + 1
  /\ provPrior' = ProviderTotal
  /\ rtInvoked' = (ChatRouteEarly(req) = NoRouteResponse)
  /\ IF ChatRouteEarly(req) # NoRouteResponse
       THEN /\ rtResp' = ChatRouteEarly(req)
            /\ rtPc' = "done"
            /\ chRequests' = 0
            /\ UNCHANGED <<chMessage, chContext, chSent, chPc, chRetry,
                           chDelays, chWaited, chOutcome, chCaught, chResult>>
       ELSE /\ rtResp' = NoRouteResponse
            /\ rtPc' = "service"
            /\ ChStart(req.message, req.context)
  /\ UNCHANGED rtFailAt

\* generateResponse settled: the handler returns its response.
ChatRouteRespond ==
  /\ rtPc = "service"
  /\ chPc \in {"resolved", "rejected"}
  /\ rtResp' = ChatRouteLate(chResult)
  /\ rtPc' = "done"
  /\ rtFailAt' = (IF rtFailAt = 0 /\ ContentFailure(chOutcome)
                    THEN ProviderTotal ELSE rtFailAt)
  /\ UNCHANGED <<rtReq, rtCalls, rtInvoked, provPrior>>
  /\ UNCHANGED <<apiVars, anVars, chVars, rtFrame>>

\* Any client posts any body.
ChatRouteReceive ==
  /\ rtCalls < MaxRouteCalls
  /\ \E req \in ChatRouteRequests : ChatRoutePost(req)
  /\ UNCHANGED <<apiVars, anVars, rtFrame>>

ChatRouteNext ==
  \/ ChatRouteReceive
  \/ ChatRouteRespond
  \/ ChProviderSettles
  \/ ChTick
  \/ ChDelayElapsed

(***************************************************************************)
(* One chat turn end to end: apiService.sendChatMessage, the chat route    *)
(* and AiChatService.generateResponse.                                     *)
(***************************************************************************)
\* Array.prototype.slice(start) for a start that may be negative.
slice(arr, start) ==
  LET len == Len(arr)
      from == IF start < 0
                THEN (IF len + start > 0 THEN len + start ELSE 0)
                ELSE (IF start < len THEN start ELSE len)
  IN  [i \in 1..(len - from) |-> arr[from + i]]

\* The object sendChatMessage serializes as the request body
\* (api.service.ts, lines 196-202).
ChatBodyWholeHistoryMut(message, context) ==
  [message |-> message,
   context |-> [analysis |-> context.analysis,
                previousMessages |-> context.previousMessages]]
ChatBody(message, context) ==
  [message |-> message,
   context |-> [analysis |-> context.analysis,
                previousMessages |-> slice(context.previousMessages, -5)]]

\* JSON.stringify on the client, req.json() in the route.
OnTheWire(body) ==
  [kind |-> "object", hasMessage |-> TRUE, message |-> body.message,
   hasContext |-> TRUE, context |-> body.context]

\* The body of a route response as the client's response.json() sees it.
ClientBody(r) ==
  IF r.kind = "text" THEN Body("payload", "") ELSE Body("error", r.text)

E2EArgs == [message : RouteMessages, context : RouteContexts]
NoArgs == [message |-> "", context |-> NoContext]

E2EInit ==
  /\ e2eArgs = NoArgs
  /\ rtServed = 0

\* The UI calls apiService.sendChatMessage(message, context).
E2ESend ==
  /\ apc = "idle"
  /\ \E a \in E2EArgs : e2eArgs' = a
  /\ op' = "sendChatMessage"
  /\ file' = NoFile
  /\ BeginAttempt("sendChatMessage", NoFile, 0)
  /\ UNCHANGED <<config, responses, only429>>
  /\ UNCHANGED <<anVars, chVars, rtVars, rtServed, e2eFrame>>

\* The request of the current attempt reaches the route.
E2EDeliver ==
  /\ op = "sendChatMessage"
  /\ rtServed < requests
  /\ rtServed' = requests
  /\ ChatRoutePost(OnTheWire(ChatBody(e2eArgs.message, e2eArgs.context)))
  /\ UNCHANGED <<apiVars, anVars, e2eArgs, e2eFrame>>

\* The route's response to the current attempt reaches the client.
E2EReceive ==
  /\ rtPc = "done"
  /\ rtServed = requests
  /\ FetchRespondsWith(rtResp.status, ClientBody(rtResp))
  /\ UNCHANGED <<anVars, chVars, restVars>>

E2ENext ==
  \/ E2ESend
  \/ E2EDeliver
  \/ E2EReceive
  \/ ChatRouteRespond
  \/ ChProviderSettles
  \/ ChTick
  \/ ChDelayElapsed
  \/ Tick
  \/ TimerFires
  \/ BodySettles
  \/ DelayElapsed

(***************************************************************************)
(* The analyze route: POST /api/analyze (src/unnamed/part_001, 242-365).   *)
(***************************************************************************)
\* A request: whether the Content-Type header includes
\* multipart/form-data, whether req.formData() can parse the body, the
\* form's "file" entry (NoFile: none), and NODE_ENV of the server.
RouteFileTypes == {"image/jpeg", "image/webp", "image/gif"}
RouteFileSizes == {MAX_FILE_SIZE, MAX_FILE_SIZE + 1}
RouteFiles == [type : RouteFileTypes, size : RouteFileSizes] \cup {NoFile}
AnalyzeRequests ==
  [multipart : BOOLEAN, form : {"ok", "bad"}, file : RouteFiles,
   env : {"development", "production"}]
NoAnalyzeRequest ==
  [multipart |-> FALSE, form |-> "none", file |-> NoFile, env |-> "none"]

\* NextResponse.json({parsedAnalysis} or {error}, {status}).
AnalyzeJson(status, kind, text, analysis) ==
  [status |-> status, kind |-> kind, text |-> text, analysis |-> analysis]
NoAnalyzeResponse == AnalyzeJson(NoStatus, "none", "", NoAnalysis)

\* String.prototype.includes: sub occurs in s.
includes(s, sub) ==
  \E i \in 1..(Len(s) - Len(sub) + 1) : SubSeq(s, i, i + Len(sub) - 1) = sub

\* A thrown value that is not an Error object.
ThrownValue(v) == [name |-> "not an Error", message |-> v, status |-> NoStatus]
\* error instanceof Error
instanceofError(error) == error.name # "not an Error"

\* The catch block, lines 346-364.
AnalyzeRouteCatch(error, env) ==
  AnalyzeJson(IF instanceofError(error)
                 /\ includes(error.message, "Analysis timeout")
                THEN 504 ELSE 500,
              "error",
              IF env = "development"
                THEN (IF instanceofError(error) THEN error.message
                      ELSE "Unknown error")
                ELSE "An error occurred while processing your request",
              NoAnalysis)

\* The handler up to the call of the analyzer: the response it returns
\* there, or NoAnalyzeResponse when it goes on to analyzeImage.
AnalyzeRouteEarlySizeFirstMut(req) ==
  IF ~req.multipart
    THEN AnalyzeJson(400, "error",
                     "Content type must be multipart/form-data", NoAnalysis)
  ELSE IF req.form = "bad"
    THEN AnalyzeRouteCatch(PlainError("TypeError",
                                      "Failed to parse body as FormData."),
                           req.env)
  ELSE IF req.file = NoFile
    THEN AnalyzeJson(400, "error", "No file uploaded", NoAnalysis)
  ELSE IF req.file.size > MAX_FILE_SIZE
    THEN AnalyzeJson(413, "error",
                     "File size too large. Maximum size is 5MB", NoAnalysis)
  ELSE IF req.file.type \notin ALLOWED_FILE_TYPES
    THEN AnalyzeJson(415, "error",
                     "File type " \o req.file.type
                       \o " not supported. Please upload JPEG, PNG or WebP",
                     NoAnalysis)
  ELSE NoAnalyzeResponse
AnalyzeRouteEarly(req) ==
  IF ~req.multipart
    THEN AnalyzeJson(400, "error",
                     "Content type must be multipart/form-data", NoAnalysis)
  ELSE IF req.form = "bad"
    THEN AnalyzeRouteCatch(PlainError("TypeError",
                                      "Failed to parse body as FormData."),
                           req.env)
  ELSE IF req.file = NoFile
    THEN AnalyzeJson(400, "error", "No file uploaded", NoAnalysis)
  ELSE IF req.file.type \notin ALLOWED_FILE_TYPES
    THEN AnalyzeJson(415, "error",
                     "File type " \o req.file.type
                       \o " not supported. Please upload JPEG, PNG or WebP",
                     NoAnalysis)
  ELSE IF req.file.size > MAX_FILE_SIZE
    THEN AnalyzeJson(413, "error",
                     "File size too large. Maximum size is 5MB", NoAnalysis)
  ELSE NoAnalyzeResponse

\* The handler after analyzeImage settled (lines 340-364).
AnalyzeRouteLate(res, env) ==
  IF res.kind = "return"
    THEN AnalyzeJson(200, "analysis", "", res.value)
    ELSE AnalyzeRouteCatch(res.error, env)

AnalyzeRouteInit ==
  /\ arPc = "idle"
  /\ arReq = NoAnalyzeRequest
  /\ arResp = NoAnalyzeResponse
  /\ arInvoked = FALSE

\* POST runs for a request up to the call of analyzeImage.
AnalyzeRoutePost ==
  /\ arPc = "idle"
  /\ anPc = "idle"
  /\ \E req \in AnalyzeRequests :
       /\ arReq' = req
       /\ arInvoked' = (AnalyzeRouteEarly(req) = NoAnalyzeResponse)
       /\ IF AnalyzeRouteEarly(req) # NoAnalyzeResponse
            THEN /\ arResp' = AnalyzeRouteEarly(req)
                 /\ arPc' = "done"
                 /\ UNCHANGED anVars
            ELSE /\ arResp' = NoAnalyzeResponse
                 /\ arPc' = "service"
                 /\ anPc' = "create"
                 /\ anRequests' = anRequests + 1
                 /\ UNCHANGED <<anRetry, anDelays, anWaited, anOutcome,
                                anCaught, anResult>>
  /\ UNCHANGED <<apiVars, chVars, arFrame>>

\* analyzeImage settled: the handler returns its response.
AnalyzeRouteRespond ==
  /\ arPc = "service"
  /\ anPc \in {"resolved", "rejected"}
  /\ arResp' = AnalyzeRouteLate(anResult, arReq.env)
  /\ arPc' = "done"
  /\ UNCHANGED <<arReq, arInvoked>>
  /\ UNCHANGED <<apiVars, anVars, chVars, arFrame>>

AnalyzeRouteNext ==
  \/ AnalyzeRoutePost
  \/ AnalyzeRouteRespond
  \/ AnProviderSettles
  \/ AnTick
  \/ AnDelayElapsed

(***************************************************************************)
(* useFloorPlanChat (src/unnamed/part_000, lines 37-126).                  *)
(***************************************************************************)
\* A ChatMessage. Each literal reads Date.now() twice: t for the id, ts for
\* the timestamp. The field n is not in the code: it numbers the objects in
\* the order of their creation (two messages may carry the same id).
ChatMessageOf(n, t, ts, suffix, text, sender) ==
  [n |-> n, id |-> [t |-> t, suffix |-> suffix], text |-> text,
   sender |-> sender, timestamp |-> ts]

\* What the second read of Date.now() in a literal may return.
SecondRead == hkNow..MaxNow

WelcomeText ==
  "Hi, I'm the FloorPlanGPT. I can help you analyze your floor plans. Ask me anything!"
ApologyText == "Sorry, I couldn't process your request. Please try again."

\* What apiService.sendChatMessage settles with.
HookReplies ==
  {Return("text"), Throw(ApiError("Failed to process chat message.", 500))}

\* The text of the assistant message sendMessage appends (lines 96-115).
AssistantTextErrorMessageMut(res) ==
  IF res.kind = "return" THEN res.value ELSE res.error.message
AssistantText(res) ==
  IF res.kind = "return" THEN res.value ELSE ApologyText

\* The id suffix of that message.
AssistantSuffix(res) == IF res.kind = "return" THEN "assistant" ELSE "error"

HookInit ==
  /\ hkAnalysis = NoAnalysis
  /\ hkMessages = <<>>
  /\ hkIsTyping = FALSE
  /\ hkCalls = <<>>
  /\ hkNow = 0
  /\ hkCreated = 0
  /\ hkChanges = 0

\* Date.now() advances.
HookClock ==
  /\ hkNow < MaxNow
  /\ hkNow' = hkNow + 1
  /\ UNCHANGED <<hkAnalysis, hkMessages, hkIsTyping, hkCalls, hkCreated,
                 hkChanges>>
  /\ UNCHANGED <<apiVars, anVars, chVars, hkFrame>>

\* The floorplanAnalysis prop changes and the effect of lines 48-59 runs.
HookSetAnalysis ==
  /\ hkChanges < MaxChanges
  /\ \E a \in ChatAnalyses \cup {NoAnalysis} :
       /\ a # hkAnalysis
       /\ hkAnalysis' = a
       /\ IF a = NoAnalysis
            THEN UNCHANGED <<hkMessages, hkCreated, hkNow>>
            ELSE \E ts \in SecondRead :
                 /\ hkMessages' = <<ChatMessageOf(hkCreated + 1, hkNow, ts,
                                      "welcome", WelcomeText, "assistant")>>
                 /\ hkCreated' = hkCreated + 1
                 /\ hkNow' = ts
  /\ hkChanges' = hkChanges + 1
  /\ UNCHANGED <<hkIsTyping, hkCalls>>
  /\ UNCHANGED <<apiVars, anVars, chVars, hkFrame>>

\* sendMessage(message) runs to its await (lines 73-94). The call record
\* keeps the message object, the arguments given to sendChatMessage and the
\* request body sendChatMessage builds from them.
HookSend ==
  /\ Len(hkCalls) < MaxSends
  /\ \E text \in HookTexts :
       IF hkAnalysis = NoAnalysis
         THEN /\ hkCalls' = Append(hkCalls,
                   [pc |-> "returned", message |-> text, user |-> 0,
                    analysis |-> hkAnalysis, previousMessages |-> <<>>,
                    body |-> ChatBody(text, NoContext),
                    result |-> NoCompletion])
              /\ UNCHANGED <<hkMessages, hkIsTyping, hkCreated, hkNow>>
         ELSE /\ \E ts \in SecondRead :
                   /\ hkMessages' = Append(hkMessages,
                        ChatMessageOf(hkCreated + 1, hkNow, ts, "", text,
                                      "user"))
                   /\ hkNow' = ts
              /\ hkCreated' = hkCreated + 1
              /\ hkIsTyping' = TRUE
              /\ hkCalls' = Append(hkCalls,
                   [pc |-> "await", message |-> text, user |-> hkCreated + 1,
                    analysis |-> hkAnalysis, previousMessages |-> hkMessages,
                    body |-> ChatBody(text,
                               [analysis |-> hkAnalysis,
                                previousMessages |-> hkMessages]),
                    result |-> NoCompletion])
  /\ UNCHANGED <<hkAnalysis, hkChanges>>
  /\ UNCHANGED <<apiVars, anVars, chVars, hkFrame>>

\* apiService.sendChatMessage settles for one of the calls: the try, catch
\* and finally blocks run (lines 96-118) and sendMessage is fulfilled.
HookSettle ==
  /\ \E i \in 1..Len(hkCalls), res \in HookReplies, ts \in SecondRead :
       /\ hkCalls[i].pc = "await"
       /\ hkMessages' = Append(hkMessages,
            ChatMessageOf(hkCreated + 1, hkNow, ts, AssistantSuffix(res),
                          AssistantText(res), "assistant"))
       /\ hkNow' = ts
       /\ hkCalls' = [hkCalls EXCEPT ![i].pc = "fulfilled",
                                     ![i].result = res]
  /\ hkCreated' = hkCreated + 1
  /\ hkIsTyping' = FALSE
  /\ UNCHANGED <<hkAnalysis, hkChanges>>
  /\ UNCHANGED <<apiVars, anVars, chVars, hkFrame>>

HookNext ==
  \/ HookClock
  \/ HookSetAnalysis
  \/ HookSend
  \/ HookSettle

(***************************************************************************)
(* The speak route: POST /api/tts and getAudioBuffer                       *)
(* (src/unnamed/part_001, lines 34-122).                                   *)
(***************************************************************************)
\* The chunks a stream delivers: each a Uint8Array, here a sequence of
\* bytes. ExampleStream has chunks of 10, 20 and 5 bytes.
TtsChunks == UNION {[1..n -> 0..1] : n \in 0..MaxChunkLen}
ExampleStream ==
  <<[i \in 1..10 |-> i], [i \in 1..20 |-> 100 + i], [i \in 1..5 |-> 200 + i]>>
TtsStreams ==
  UNION {[1..n -> TtsChunks] : n \in 0..MaxChunks} \cup {ExampleStream}

\* chunks.reduce((acc, chunk) => acc + chunk.length, 0)
RECURSIVE reduceLengths(_)
reduceLengths(chunks) ==
  IF chunks = <<>> THEN 0
  ELSE Len(chunks[Len(chunks)])
       + reduceLengths(SubSeq(chunks, 1, Len(chunks) - 1))

\* TypedArray.prototype.set(chunk, offset)
setIgnoringOffsetMut(arr, chunk, offset) ==
  [i \in 1..Len(arr) |-> IF i <= Len(chunk) THEN chunk[i] ELSE arr[i]]
set(arr, chunk, offset) ==
  [i \in 1..Len(arr) |->
     IF i > offset /\ i <= offset + Len(chunk) THEN chunk[i - offset]
     ELSE arr[i]]

\* The copy loop of lines 114-118.
RECURSIVE copyChunks(_, _, _)
copyChunks(concatenated, chunks, offset) ==
  IF chunks = <<>> THEN concatenated
  ELSE copyChunks(set(concatenated, Head(chunks), offset), Tail(chunks),
                  offset + Len(Head(chunks)))

\* getAudioBuffer once the reader reported done: a zero-filled Uint8Array
\* of the summed length, filled by the copy loop.
getAudioBuffer(chunks) ==
  copyChunks([i \in 1..reduceLengths(chunks) |-> 0], chunks, 0)

\* Number.prototype.toString() of a length: its decimal digits.
RECURSIVE toString(_)
toString(n) ==
  IF n < 10 THEN <<n>> ELSE toString(n \div 10) \o <<n % 10>>

\* Response(buffer, {headers}) and NextResponse.json({error}, {status: 500}).
TtsAudio(buffer) ==
  [status |-> 200, contentType |-> "audio/wav",
   contentLength |-> toString(Len(buffer)), body |-> buffer, error |-> ""]
TtsFailure ==
  [status |-> 500, contentType |-> "application/json",
   contentLength |-> <<>>, body |-> <<>>,
   error |-> "Failed to generate speech"]
NoTtsResponse ==
  [status |-> NoStatus, contentType |-> "", contentLength |-> <<>>,
   body |-> <<>>, error |-> ""]

TtsInit ==
  /\ ttsPc = "idle"
  /\ ttsStream = <<>>
  /\ ttsChunks = <<>>
  /\ ttsResp = NoTtsResponse

\* POST up to the call of getAudioBuffer: request.json(), the provider
\* request or getStream() fail, the stream is absent, or there is a stream.
TtsPost ==
  /\ ttsPc = "idle"
  /\ \/ /\ ttsPc' = "done"
        /\ ttsResp' = TtsFailure
        /\ UNCHANGED ttsStream
     \/ /\ \E s \in TtsStreams : ttsStream' = s
        /\ ttsPc' = "reading"
        /\ UNCHANGED ttsResp
  /\ UNCHANGED ttsChunks
  /\ UNCHANGED <<apiVars, anVars, chVars, ttsFrame>>

\* reader.read() resolves: with the next chunk, or with done, after which
\* the buffer is built and the response returned.
TtsRead ==
  /\ ttsPc = "reading"
  /\ IF ttsStream # <<>>
       THEN /\ ttsChunks' = Append(ttsChunks, Head(ttsStream))
            /\ ttsStream' = Tail(ttsStream)
            /\ UNCHANGED <<ttsPc, ttsResp>>
       ELSE /\ ttsResp' = TtsAudio(getAudioBuffer(ttsChunks))
            /\ ttsPc' = "done"
            /\ UNCHANGED <<ttsStream, ttsChunks>>
  /\ UNCHANGED <<apiVars, anVars, chVars, ttsFrame>>

\* reader.read() rejects: the catch block answers.
TtsReadFails ==
  /\ ttsPc = "reading"
  /\ ttsResp' = TtsFailure
  /\ ttsPc' = "done"
  /\ UNCHANGED <<ttsStream, ttsChunks>>
  /\ UNCHANGED <<apiVars, anVars, chVars, ttsFrame>>

TtsNext ==
  \/ TtsPost
  \/ TtsRead
  \/ TtsReadFails

(***************************************************************************)
(* AudioMessage (src/unnamed/part_003, lines 134-261).                     *)
(***************************************************************************)
\* An Audio element: playing, whether its object URL is revoked, the
\* canplaythrough events it has emitted, the promise of a play() call
\* ("none", "pending", or "aborted": pending and bound to reject), and
\* whether it has failed (onerror ran).
NewAudio ==
  [playing |-> FALSE, revoked |-> FALSE, canplaythrough |-> 0,
   play |-> "none", failed |-> FALSE]

\* HTMLMediaElement.pause(): the element stops, and a pending play()
\* promise is rejected.
pause(audio) ==
  [audio EXCEPT !.playing = FALSE,
                !.play = IF @ = "pending" THEN "aborted" ELSE @]

\* cleanupAudio: the audio elements after it ran with audioRef.current at
\* index ref (0: null): that element is paused and its object URL revoked.
cleanupAudio(elems, ref) ==
  IF ref = 0 THEN elems
  ELSE [elems EXCEPT ![ref] = [pause(@) EXCEPT !.revoked = TRUE]]

AudioInit ==
  /\ auIsPlaying = FALSE
  /\ auIsLoading = FALSE
  /\ auRef = 0
  /\ auElems = <<>>
  /\ auPending = 0
  /\ auRequests = 0
  /\ auMounted = TRUE

\* A state setter called with value v: React ignores it once the component
\* is unmounted.
SetState(v, current) == IF auMounted THEN v ELSE current

\* A click on the button (enabled while isLoading is false): handlePlay
\* runs to its return at line 192 or to its await at line 196.
AudioClick ==
  /\ auMounted
  /\ ~auIsLoading
  /\ IF auIsPlaying /\ auRef # 0
       THEN /\ auElems' = [auElems EXCEPT ![auRef] = pause(@)]
            /\ auIsPlaying' = FALSE
            /\ auIsLoading' = FALSE
            /\ UNCHANGED <<auPending, auRequests>>
       ELSE /\ auRequests < MaxAudios
            /\ auIsLoading' = TRUE
            /\ auPending' = auPending + 1
            /\ auRequests' = auRequests + 1
            /\ UNCHANGED <<auElems, auIsPlaying>>
  /\ UNCHANGED auRef
  /\ UNCHANGED auMounted
  /\ UNCHANGED <<apiVars, anVars, chVars, auFrame>>

\* generateSpeech resolves for one of the running handlePlay calls: lines
\* 197-234 and the finally block.
AudioSpeechArrives ==
  /\ auPending > 0
  /\ auPending' = auPending - 1
  /\ auElems' = Append(cleanupAudio(auElems, auRef), NewAudio)
  /\ auRef' = Len(auElems) + 1
  /\ auIsLoading' = SetState(FALSE, auIsLoading)
  /\ UNCHANGED <<auIsPlaying, auRequests>>
  /\ UNCHANGED auMounted
  /\ UNCHANGED <<apiVars, anVars, chVars, auFrame>>

\* generateSpeech rejects: the catch and finally blocks.
AudioSpeechFails ==
  /\ auPending > 0
  /\ auPending' = auPending - 1
  /\ auIsPlaying' = SetState(FALSE, auIsPlaying)
  /\ auIsLoading' = SetState(FALSE, auIsLoading)
  /\ UNCHANGED <<auRef, auElems, auRequests>>
  /\ UNCHANGED auMounted
  /\ UNCHANGED <<apiVars, anVars, chVars, auFrame>>

\* An element has loaded enough (again, after a stall): its
\* oncanplaythrough handler runs to its await of audio.play() (line 208).
AudioCanPlayThrough ==
  /\ \E i \in 1..Len(auElems) :
       /\ ~auElems[i].failed
       /\ auElems[i].canplaythrough < MaxCanPlay
       /\ auElems[i].play = "none"
       /\ auElems' = [auElems EXCEPT ![i].canplaythrough = @ + 1,
                                     ![i].play = "pending"]
  /\ UNCHANGED <<auIsPlaying, auIsLoading, auRef, auPending, auRequests>>
  /\ UNCHANGED auMounted
  /\ UNCHANGED <<apiVars, anVars, chVars, auFrame>>

\* The promise of audio.play() settles and the handler runs on (lines
\* 209-216): the playback has started, or the promise rejects (always so
\* after a pause() or an error of the element).
AudioPlaySettles ==
  /\ \E i \in 1..Len(auElems), ok \in BOOLEAN :
       /\ auElems[i].play \in {"pending", "aborted"}
       /\ (auElems[i].play = "aborted" => ~ok)
       /\ auElems' = [auElems EXCEPT ![i].play = "none",
                                     ![i].playing = IF ok THEN TRUE ELSE @]
       /\ auIsPlaying' = (IF ok THEN SetState(TRUE, auIsPlaying)
                          ELSE auIsPlaying)
  /\ auIsLoading' = SetState(FALSE, auIsLoading)
  /\ UNCHANGED <<auRef, auPending, auRequests>>
  /\ UNCHANGED auMounted
  /\ UNCHANGED <<apiVars, anVars, chVars, auFrame>>

\* A playing element reaches its end: onended.
AudioEnded ==
  /\ \E i \in 1..Len(auElems) :
       /\ auElems[i].playing
       /\ auElems' = [auElems EXCEPT ![i].playing = FALSE,
                                     ![i].revoked = TRUE]
  /\ auIsPlaying' = SetState(FALSE, auIsPlaying)
  /\ UNCHANGED <<auIsLoading, auRef, auPending, auRequests>>
  /\ UNCHANGED auMounted
  /\ UNCHANGED <<apiVars, anVars, chVars, auFrame>>

\* An element fails to load or to decode: onerror.
AudioError ==
  /\ \E i \in 1..Len(auElems) :
       /\ ~auElems[i].failed
       /\ \/ auElems[i].playing
          \/ auElems[i].canplaythrough = 0
          \/ auElems[i].play = "pending"
       /\ auElems' = [auElems EXCEPT ![i] = [pause(@) EXCEPT
                                               !.revoked = TRUE,
                                               !.failed = TRUE]]
  /\ auIsPlaying' = SetState(FALSE, auIsPlaying)
  /\ UNCHANGED <<auIsLoading, auRef, auPending, auRequests>>
  /\ UNCHANGED auMounted
  /\ UNCHANGED <<apiVars, anVars, chVars, auFrame>>

\* The component is unmounted: the cleanup of the effect of lines 161-169
\* runs cleanupAudio() and aborts the controller, whose signal is given to
\* no request and to no element.
AudioUnmount ==
  /\ auMounted
  /\ auMounted' = FALSE
  /\ auElems' = cleanupAudio(auElems, auRef)
  /\ UNCHANGED <<auIsPlaying, auIsLoading, auRef, auPending, auRequests>>
  /\ UNCHANGED <<apiVars, anVars, chVars, auFrame>>

AudioNext ==
  \/ AudioClick
  \/ AudioSpeechArrives
  \/ AudioSpeechFails
  \/ AudioCanPlayThrough
  \/ AudioPlaySettles
  \/ AudioEnded
  \/ AudioError
  \/ AudioUnmount

(***************************************************************************)
(* Home (src/unnamed/part_001, lines 396-596).                             *)
(***************************************************************************)
\* What apiService.analyzeImage resolves with: an analysis whose scores are
\* numbers (each 0 or 70, or all of them -1).
HomeAnalyses ==
  [scores : [kind : {"object"},
             vals : [ScoreNames -> {Num(0), Num(70)}]
                    \cup {[n \in ScoreNames |-> Num(0 - 1)]}],
   recommendations : {"array1"}]

\* Object.values(parsedAnalysis.scores).some(score => score > 0)
isValidFloorPlanEveryMut(parsedAnalysis) ==
  \A score \in ObjectValues(parsedAnalysis.scores) : score.v > 0
isValidFloorPlan(parsedAnalysis) ==
  \E score \in ObjectValues(parsedAnalysis.scores) : score.v > 0

HomeInit ==
  /\ hmImageUrl = 0
  /\ hmAnalysis = NoAnalysis
  /\ hmActiveTab = "upload"
  /\ hmIsAnalyzing = FALSE
  /\ hmIsUploaded = FALSE
  /\ hmCalls = <<>>
  /\ hmRevoked = {}
  /\ hmToasts = 0

\* The defaults of the props of UploadArea (part_004, lines 61-62): Home passes neither maxSizeMB nor
\* allowedTypes (part_001, lines 555-560).
maxSizeMB == 10
allowedTypes == {"image/jpeg", "image/png", "application/pdf"}

\* The files a user may choose or drop.
UploadFileTypes == ALLOWED_FILE_TYPES \cup {"application/pdf", "image/gif"}
UploadFileSizes == {MAX_FILE_SIZE, MAX_FILE_SIZE + 1,
                    maxSizeMB * 1024 * 1024, maxSizeMB * 1024 * 1024 + 1}
UploadFiles == [type : UploadFileTypes, size : UploadFileSizes]

\* The uploadError of an upload area that shows no error (null).
NoUploadError == "null"

\* UploadArea.validateFile (part_004, lines 87-102): the uploadError it sets, or
\* NoUploadError when it returns true.
uploadAreaValidateFile(f) ==
  IF f.type \notin allowedTypes
    THEN "Invalid file type. Please upload jpeg, png, pdf files."
  ELSE IF f.size > maxSizeMB * 1024 * 1024
    THEN "File is too large. Maximum size is 10MB."
  ELSE NoUploadError

UploadInit ==
  /\ upFile = NoFile
  /\ upError = NoUploadError

\* handleUpload(file) runs to its await (lines 435-446). The upload area
\* takes no file while isAnalyzing is true. The object URL created by the
\* n-th call is n.
HomeUploadToAwait ==
  /\ ~hmIsAnalyzing
  /\ Len(hmCalls) < MaxUploads
  /\ hmCalls' = Append(hmCalls, [url |-> Len(hmCalls) + 1, pc |-> "await",
                                 result |-> AnNoCompletion])
  /\ hmImageUrl' = Len(hmCalls) + 1
  /\ hmIsUploaded' = TRUE
  /\ hmIsAnalyzing' = TRUE
  /\ UNCHANGED <<hmAnalysis, hmActiveTab, hmRevoked, hmToasts>>

\* The user chooses a file the upload area accepts: handleUploadStart
\* (part_004, lines 122-137) clears uploadError and handleUpload starts.
HomeUpload ==
  /\ \E f \in UploadFiles :
       /\ uploadAreaValidateFile(f) = NoUploadError
       /\ upFile' = f
       /\ upError' = NoUploadError
  /\ HomeUploadToAwait
  /\ UNCHANGED <<apiVars, anVars, chVars, upFrame>>

\* analyzeImage resolves for a running handleUpload: lines 449-478 and the
\* finally block.
HomeAnalysisArrives ==
  /\ \E i \in 1..Len(hmCalls), a \in HomeAnalyses :
       /\ hmCalls[i].pc = "await"
       /\ hmCalls' = [hmCalls EXCEPT ![i].pc = "done",
                                     ![i].result = AnReturn(a)]
       /\ IF ~isValidFloorPlan(a)
            THEN /\ hmRevoked' = (IF hmImageUrl # 0
                                    THEN hmRevoked \cup {hmImageUrl}
                                    ELSE hmRevoked)
                 /\ hmImageUrl' = 0
                 /\ hmIsUploaded' = FALSE
                 /\ hmAnalysis' = NoAnalysis
                 /\ hmActiveTab' = "upload"
                 /\ hmToasts' = hmToasts + 1
            ELSE /\ hmAnalysis' = a
                 /\ hmActiveTab' = "analysis"
                 /\ UNCHANGED <<hmImageUrl, hmIsUploaded, hmRevoked,
                                hmToasts>>
  /\ hmIsAnalyzing' = FALSE
  /\ UNCHANGED <<apiVars, anVars, chVars, hmFrame>>

\* analyzeImage rejects: the catch block logs, the finally block runs.
HomeAnalysisFails ==
  /\ \E i \in 1..Len(hmCalls) :
       /\ hmCalls[i].pc = "await"
       /\ hmCalls' = [hmCalls EXCEPT
            ![i].pc = "done",
            ![i].result = AnThrow(PlainError("Error", "Request timeout"))]
  /\ hmIsAnalyzing' = FALSE
  /\ UNCHANGED <<hmImageUrl, hmAnalysis, hmActiveTab, hmIsUploaded,
                 hmRevoked, hmToasts>>
  /\ UNCHANGED <<apiVars, anVars, chVars, hmFrame>>

\* UploadArea.resetUpload (part_004, lines 154-172) and the handleReset it
\* calls, from the buttons "Upload Another" and "Cancel": they are rendered
\* when the area is neither analysing nor uploading and shows an uploaded
\* file. (They are also rendered for a preview left behind with isUploaded
\* false; there the reset only clears uploadError, as UploadDismissError.)
HomeReset ==
  /\ ~hmIsAnalyzing
  /\ hmIsUploaded
  /\ upError' = NoUploadError
  /\ hmImageUrl' = 0
  /\ hmAnalysis' = NoAnalysis
  /\ hmActiveTab' = "upload"
  /\ hmIsUploaded' = FALSE
  /\ hmIsAnalyzing' = FALSE
  /\ hmRevoked' = (IF hmImageUrl # 0 THEN hmRevoked \cup {hmImageUrl}
                   ELSE hmRevoked)
  /\ UNCHANGED <<hmCalls, hmToasts>>
  /\ UNCHANGED <<apiVars, anVars, chVars, upFile, upFrame>>

\* The user selects the other tab (the analysis tab is disabled without an
\* analysis).
HomeSelectTab ==
  /\ \E value \in {"upload", "analysis"} :
       /\ value # hmActiveTab
       /\ (value = "analysis" => hmAnalysis # NoAnalysis)
       /\ hmActiveTab' = value
  /\ UNCHANGED <<hmImageUrl, hmAnalysis, hmIsAnalyzing, hmIsUploaded,
                 hmCalls, hmRevoked, hmToasts>>
  /\ UNCHANGED <<apiVars, anVars, chVars, hmFrame>>

(***************************************************************************)
(* UploadArea as Home renders it (src/unnamed/part_004, lines 58-386;      *)
(* src/hooks/use-file-upload.ts): from the choice of a file to the         *)
(* analyzeImage call of Home.handleUpload.                                 *)
(***************************************************************************)
\* handleFileChange / handleDrop with the file f: the onUpload callback of
\* useFileUpload runs handleUploadStart(f) and, when the file passes,
\* Home.handleUpload(f), which runs to its await of
\* apiService.analyzeImage(f). The drop zone takes no pointer events while
\* isAnalyzing is true.
UploadChooseFile(f) ==
  /\ ~hmIsAnalyzing
  /\ apc = "idle"
  /\ upFile' = f
  /\ upError' = uploadAreaValidateFile(f)
  /\ IF uploadAreaValidateFile(f) # NoUploadError
       THEN UNCHANGED <<apiVars, hmVars>>
       ELSE /\ HomeUploadToAwait
            /\ op' = "analyzeImage"
            /\ file' = f
            /\ BeginAttempt("analyzeImage", f, 0)
            /\ UNCHANGED <<config, responses, only429>>
  /\ UNCHANGED <<anVars, chVars, upFrame>>

UploadChoose ==
  /\ \E f \in UploadFiles : UploadChooseFile(f)

\* The user chooses a file the upload area refuses.
UploadRefuse ==
  /\ \E f \in UploadFiles :
       /\ uploadAreaValidateFile(f) # NoUploadError
       /\ UploadChooseFile(f)

\* The X button of the error banner (lines 209-212): setUploadError(null).
UploadDismissError ==
  /\ upError # NoUploadError
  /\ upError' = NoUploadError
  /\ UNCHANGED upFile
  /\ UNCHANGED <<apiVars, anVars, chVars, hmVars, upFrame>>

\* Home with its upload area, the analyzeImage call a black box that
\* HomeAnalysisArrives / HomeAnalysisFails settle.
HomeNext ==
  \/ HomeUpload
  \/ HomeAnalysisArrives
  \/ HomeAnalysisFails
  \/ HomeReset
  \/ HomeSelectTab
  \/ UploadRefuse
  \/ UploadDismissError

\* The analyzeImage call proceeds (the continuation of handleUpload is
\* HomeAnalysisArrives / HomeAnalysisFails).
UploadNext ==
  \/ UploadChoose
  \/ UploadDismissError
  \/ Tick
  \/ FetchResponds
  \/ FetchFails
  \/ TimerFires
  \/ BodySettles
  \/ DelayElapsed

(***************************************************************************)
(* Specifications: one call of one service at a time.                      *)
(***************************************************************************)
\* A client constructed with any of the configurations.
RestInit ==
  /\ RouteInit /\ E2EInit /\ AnalyzeRouteInit /\ HookInit /\ TtsInit
  /\ AudioInit /\ HomeInit /\ UploadInit

InitApi == ApiInit /\ AnInit /\ ChInit /\ RestInit

\* The server side runs next to the exported client instance.
InitServer == apiService /\ AnInit /\ ChInit /\ RestInit

SpecApi == InitApi /\ [][ApiNext]_vars

SpecAnalyzer == InitServer /\ [][AnNext]_vars

SpecChat == InitServer /\ [][ChNext]_vars

SpecChatRoute == InitServer /\ [][ChatRouteNext]_vars

SpecChatE2E == InitServer /\ [][E2ENext]_vars

SpecAnalyzeRoute == InitServer /\ [][AnalyzeRouteNext]_vars

SpecTts == InitServer /\ [][TtsNext]_vars

\* The browser side: the components run next to the exported client.
InitBrowser == apiService /\ AnInit /\ ChInit /\ RestInit

SpecHook == InitBrowser /\ [][HookNext]_vars

SpecAudio == InitBrowser /\ [][AudioNext]_vars

SpecHome == InitBrowser /\ [][HomeNext]_vars

SpecUpload == InitBrowser /\ [][UploadNext]_vars

\* One call of one of the three retrying layers: the exported client, the
\* analyzer service or the chat service (the layer that is called first is
\* the one that runs).
InitBackoff == apiService /\ AnInit /\ ChInit /\ RestInit

BackoffNext ==
  \/ anPc = "idle" /\ chPc = "idle" /\ ApiNext
  \/ apc = "idle" /\ chPc = "idle" /\ AnNext
  \/ apc = "idle" /\ anPc = "idle" /\ ChNext

SpecBackoff == InitBackoff /\ [][BackoffNext]_vars

(***************************************************************************)
(* Properties of ApiService (checked under SpecApi).                       *)
(***************************************************************************)
\* The statuses the specification names as retryable.
SpecRetryable == {408, 429, 500, 502, 503, 504}
ApiSettled == apc \in {"resolved", "rejected"}
\* The file constraints as the specification states them.
SpecFileOk(f) ==
  /\ f.type \in {"image/jpeg", "image/png", "image/webp"}
  /\ f.size <= 5 * 1024 * 1024

\* C1: when every request of a call is answered with status 429 (and every
\* body arrives), the call makes exactly maxRetries + 1 requests and
\* rejects with an error carrying status 429.
C1_Exactly429Retries ==
  (ApiSettled /\ requests >= 1 /\ responses = requests /\ only429
     /\ resp.body.kind # "fail")
  => /\ apc = "rejected"
     /\ requests = maxRetries + 1
     /\ result.error.status = 429

\* C2: a failure that carries none of the statuses 408, 429, 500, 502, 503,
\* 504 ends the call at once: the call is rejected, no delay follows the
\* failure and no request is issued after it; as the first failure of a call
\* it leaves exactly one attempt and at most one request.
C2_NonRetryableFailsAtOnce ==
  (caught # NoError /\ caught.status \notin SpecRetryable)
  => /\ apc = "rejected"
     /\ result.kind = "throw"
     /\ Len(delays) = retryCount
     /\ requests = (IF resp = NoResp /\ timer = "none" THEN 0
                    ELSE retryCount + 1)
     /\ (Len(delays) = 0 => requests <= 1)

\* A 404 answer with a JSON body has been received by the first attempt and
\* the call is over.
C2_Witness ==
  /\ apc = "rejected"
  /\ caught.name = "ApiError"
  /\ caught.status = 404
  /\ requests = 1
  /\ delays = <<>>

\* C3: a call never settles on a response with a retryable status while
\* retries are left, whatever the body holds and in all three operations.
C3_UniformRetry ==
  (ApiSettled /\ resp # NoResp /\ resp.status \in SpecRetryable
     /\ resp.body.kind # "fail")
  => retryCount >= maxRetries

\* C4: once the timeout timer of an attempt has fired before the response
\* arrived (the pending fetch was rejected with the AbortError), the
\* request is aborted, the call is rejected with Error("Request timeout")
\* and the failed attempt is the last one.
C4_TimeoutIsTerminal ==
  (timer = "fired" /\ caught.name = "AbortError")
  => /\ aborted
     /\ apc = "rejected"
     /\ result = Throw(PlainError("Error", "Request timeout"))
     /\ requests = retryCount + 1
     /\ Len(delays) = retryCount

\* The timer fired on a retry attempt while retries were still available.
C4_Witness ==
  /\ timer = "fired"
  /\ caught.name = "AbortError"
  /\ retryCount >= 1
  /\ retryCount < maxRetries

\* C5: an attempt that is still in flight (awaiting the response or its
\* body) has not run longer than the timeout (within one clock step).
C5_BoundedAttempt ==
  apc \in {"fetch", "body"} => elapsed < timeout + TickMs

\* C6: analyzeImage issues no request at all and makes no retry for a file
\* of a type other than jpeg/png/webp or of more than 5 MiB, and issues a
\* request for every other file, one of exactly 5 MiB included.
C6_FileValidation ==
  op = "analyzeImage"
  => IF SpecFileOk(file)
       THEN requests >= 1
       ELSE /\ requests = 0
            /\ apc = "rejected"
            /\ result.kind = "throw"
            /\ retryCount = 0
            /\ delays = <<>>

\* A JPEG of exactly 5 MiB has been sent.
C6_Witness ==
  /\ op = "analyzeImage"
  /\ file = [type |-> "image/jpeg", size |-> 5242880]
  /\ apc = "fetch"
  /\ requests = 1

(***************************************************************************)
(* Properties of AiAnalyzerService (checked under SpecAnalyzer).           *)
(***************************************************************************)
AnSettled == anPc \in {"resolved", "rejected"}

\* The sentinel analysis as the specification states it.
SpecSentinel ==
  [scores |-> [kind |-> "object",
               vals |-> [n \in ScoreNames |-> [t |-> "num", v |-> 0]]],
   recommendations |-> "array0"]

\* A provider outcome that is not a valid analysis, by the list of C7: an
\* API error or another rejection, empty choices, finish_reason length or
\* content_filter, empty content, unparseable JSON, a JSON value without
\* the scores or the recommendations field, a score outside [0,100].
SpecFailure(o) ==
  \/ o.kind \in {"apiError", "error"}
  \/ o.kind = "response" /\ o.choices = "none"
  \/ /\ o.kind = "response"
     /\ o.choices = "one"
     /\ \/ o.finish \in {"length", "content_filter"}
        \/ o.content.text \in {"empty", "bad"}
        \/ o.content.json.type # "object"
        \/ o.content.json.obj.scores.kind = "absent"
        \/ o.content.json.obj.recommendations = "absent"
        \/ \E n \in ScoreNames :
             LET e == o.content.json.obj.scores.vals[n]
             IN  e.t = "num" /\ (e.v < 0 \/ e.v > 100)

\* A valid FloorPlanAnalysis as the specification states it: the four
\* scores are present and are numbers in [0,100], recommendations is present.
SpecValidAnalysis(a) ==
  /\ a.scores.kind = "object"
  /\ \A n \in ScoreNames :
       /\ a.scores.vals[n].t = "num"
       /\ a.scores.vals[n].v >= 0
       /\ a.scores.vals[n].v <= 100
  /\ a.recommendations # "absent"

\* C7: analyzeImage never rejects, and a call whose last provider request
\* ended in one of the listed failures resolves with the sentinel analysis.
C7_DegradesToSentinel ==
  /\ anPc # "rejected"
  /\ anResult.kind # "throw"
  /\ (anPc = "resolved" /\ SpecFailure(anOutcome))
       => anResult = AnReturn(SpecSentinel)

\* Three provider requests were answered with an API error of status 429
\* and the call has resolved.
C7_Witness ==
  /\ anPc = "resolved"
  /\ anRequests = 3
  /\ anOutcome.kind = "apiError"
  /\ anOutcome.status = 429
  /\ anResult.value = SpecSentinel

\* C8: every value analyzeImage resolves with is a valid FloorPlanAnalysis.
C8_ResultIsValid ==
  anPc = "resolved" => SpecValidAnalysis(anResult.value)

\* C9: analyzeImage makes at most 3 provider requests, each re-issue follows
\* one delay made after an API error of status 429 or 500, and an outcome
\* of any other kind ends the call with the request that produced it.
C9_AnalyzerRetryPolicy ==
  /\ anRequests <= 3
  /\ anRetry <= 2
  /\ anRequests = (IF anPc = "idle" THEN 0 ELSE anRetry + 1)
  /\ Len(anDelays) = anRetry + (IF anPc = "delay" THEN 1 ELSE 0)
  /\ anPc = "delay"
       => /\ anOutcome.kind = "apiError"
          /\ anOutcome.status \in {429, 500}
  /\ (anPc = "create" /\ anRetry > 0)
       => /\ anCaught.name = "APIError"
          /\ anCaught.status \in {429, 500}
  /\ (/\ anOutcome # NoOutcome
      /\ ~(anOutcome.kind = "apiError" /\ anOutcome.status \in {429, 500}))
       => AnSettled

\* The third request of a call was answered with status 500 and the call
\* is over.
C9_Witness ==
  /\ AnSettled
  /\ anRequests = 3
  /\ anOutcome.kind = "apiError"
  /\ anOutcome.status = 500

(***************************************************************************)
(* Properties of AiChatService (checked under SpecChat).                   *)
(***************************************************************************)
ChSettled == chPc \in {"resolved", "rejected"}

\* The provider answered with a usable reply.
SpecReply(o) ==
  /\ o.kind = "response"
  /\ o.choices = "one"
  /\ o.finish = "stop"
  /\ o.content # "empty"

\* A failure the specification names as retryable: 429 or any 5xx.
SpecChatRetryable(o) ==
  o.kind = "apiError" /\ (o.status = 429 \/ o.status >= 500)

\* C10: generateResponse makes at most 4 provider requests, re-issues only
\* after an API error of status 429 or >= 500, and a call that ends on a
\* failure rejects with that very error; it resolves only with the
\* provider's own reply.
C10_ChatRetryPolicy ==
  /\ chRequests <= 4
  /\ chRetry <= 3
  /\ chRequests = (IF chPc = "idle" THEN 0 ELSE chRetry + 1)
  /\ Len(chDelays) = chRetry + (IF chPc = "delay" THEN 1 ELSE 0)
  /\ chPc = "delay" => SpecChatRetryable(chOutcome)
  /\ (chPc = "create" /\ chRetry > 0)
       => /\ chCaught.name = "APIError"
          /\ (chCaught.status = 429 \/ chCaught.status >= 500)
  /\ (chOutcome # ChNoOutcome /\ ~SpecChatRetryable(chOutcome)) => ChSettled
  /\ (ChSettled /\ ~SpecReply(chOutcome))
       => /\ chPc = "rejected"
          /\ chResult.kind = "throw"
          /\ chResult.error = chCaught
          /\ chOutcome.kind = "apiError"
               => /\ chResult.error.name = "APIError"
                  /\ chResult.error.status = chOutcome.status
  /\ chPc = "resolved"
       => /\ SpecReply(chOutcome)
          /\ chResult = Return(chOutcome.content)

\* The fourth request of a call was answered with status 503 and the error
\* has been rethrown.
C10_Witness ==
  /\ chPc = "rejected"
  /\ chRequests = 4
  /\ chOutcome.kind = "apiError"
  /\ chOutcome.status = 503
  /\ chResult.error.status = 503

(***************************************************************************)
(* Properties of a chat turn end to end (checked under SpecChatE2E).       *)
(***************************************************************************)
\* C11: a content-filter rejection, a length truncation or an empty answer
\* of the chat provider is not retried: once such an outcome has reached the
\* route, no further provider request is made for the same sendChatMessage
\* call, and the call ends rejected.
C11_ContentFailureNotRetried ==
  rtFailAt > 0 =>
    /\ ProviderTotal = rtFailAt
    /\ (ApiSettled => apc = "rejected")

(***************************************************************************)
(* Properties of the chat route (checked under SpecChatRoute).             *)
(***************************************************************************)
SpecFixed500(r) ==
  r = [status |-> 500, kind |-> "error",
       text |-> "Failed to process chat message."]

\* C14: the chat route answers 400 when message is missing or empty or when
\* context is missing, without calling generateResponse; an unparseable
\* body and any error thrown by the chat service give 500 with the fixed
\* body; on success it answers {text} with the service's reply.
C14_ChatRouteStatuses ==
  rtPc = "done" =>
    IF rtReq.kind # "object"
      THEN SpecFixed500(rtResp) /\ ~rtInvoked
    ELSE IF ~rtReq.hasMessage \/ rtReq.message = "" \/ ~rtReq.hasContext
      THEN rtResp.status = 400 /\ rtResp.kind = "error" /\ ~rtInvoked
    ELSE /\ rtInvoked
         /\ chPc \in {"resolved", "rejected"}
         /\ (chPc = "rejected" => SpecFixed500(rtResp))
         /\ (chPc = "resolved" =>
               rtResp = [status |-> 200, kind |-> "text",
                         text |-> chResult.value])

\* The route answered 400 to an empty message sent with a context.
C14_Witness ==
  /\ rtPc = "done"
  /\ rtReq.kind = "object" /\ rtReq.hasMessage /\ rtReq.message = ""
  /\ rtReq.hasContext
  /\ rtResp.status = 400

(***************************************************************************)
(* Properties of the analyze route (checked under SpecAnalyzeRoute).       *)
(***************************************************************************)
\* C12: the analyze route answers 400 when the content type is not
\* multipart/form-data or no file is present, 415 when the file type is not
\* jpeg/png/webp and 413 when the file is larger than 5 MiB, the checks
\* applied in that order; in each of these cases analyzeImage is not called.
C12_AnalyzeRouteValidation ==
  (arReq # NoAnalyzeRequest /\ (arReq.multipart => arReq.form = "ok")) =>
    IF ~arReq.multipart \/ arReq.file = NoFile
      THEN arPc = "done" /\ arResp.status = 400 /\ ~arInvoked
    ELSE IF arReq.file.type \notin {"image/jpeg", "image/png", "image/webp"}
      THEN arPc = "done" /\ arResp.status = 415 /\ ~arInvoked
    ELSE IF arReq.file.size > 5 * 1024 * 1024
      THEN arPc = "done" /\ arResp.status = 413 /\ ~arInvoked
    ELSE arInvoked

\* A file of an unsupported type that is also too large was answered 415.
C12_Witness ==
  /\ arReq.multipart /\ arReq.form = "ok"
  /\ arReq.file = [type |-> "image/gif", size |-> MAX_FILE_SIZE + 1]
  /\ arResp.status = 415

\* The provider call made for the request ended in a timeout: the SDK
\* rejects with an APIError that carries no status.
SpecProviderTimedOut ==
  anOutcome.kind = "apiError" /\ anOutcome.status = NoStatus

\* C13: when the vision provider call made for an analyze request times
\* out, the analyze route responds with status 504 and an error body.
C13_TimeoutGives504 ==
  (arPc = "done" /\ arInvoked /\ SpecProviderTimedOut) =>
    arResp.status = 504 /\ arResp.kind = "error"

(***************************************************************************)
(* Properties of the provider request of the chat service (SpecChat).      *)
(***************************************************************************)
\* C16: every provider request built by generateResponse for n previous
\* messages has n + 2 messages: the system message with the JSON
\* serialization of context.analysis, the n previous messages in their order
\* (sender "user" as role user, any other sender as role assistant), and
\* last the current user message; retries send the same sequence.
C16_ProviderRequestShape ==
  chPc # "idle" =>
    LET prev == chContext.previousMessages
        n == Len(prev)
    IN  /\ Len(chSent) = n + 2
        /\ chSent[1].role = "system"
        /\ chSent[1].system.json = JSONstringify(chContext.analysis)
        /\ \A i \in 1..n :
             /\ chSent[i + 1].role =
                  (IF prev[i].sender = "user" THEN "user" ELSE "assistant")
             /\ chSent[i + 1].content = prev[i].text
        /\ chSent[n + 2].role = "user"
        /\ chSent[n + 2].content = chMessage

\* A retry request is in flight for two different previous messages.
C16_Witness ==
  /\ chPc = "create"
  /\ chRetry > 0
  /\ Len(chContext.previousMessages) = 2
  /\ chContext.previousMessages[1] # chContext.previousMessages[2]

(***************************************************************************)
(* Properties of useFloorPlanChat (checked under SpecHook).                *)
(***************************************************************************)
\* C15: the request body built by sendChatMessage carries exactly the last
\* min(5, n) elements of context.previousMessages in their order (each
\* attempt builds it from the same arguments), so a chat turn started from
\* the UI reaches the provider with at most 5 prior messages, and the
\* message being sent is not among them.
C15_LastFiveMessages ==
  \A j \in 1..Len(hkCalls) :
    hkCalls[j].pc # "returned" =>
      LET c == hkCalls[j]
          n == Len(c.previousMessages)
          k == IF n < 5 THEN n ELSE 5
          sent == c.body.context.previousMessages
      IN  /\ Len(sent) = k
          /\ \A i \in 1..k : sent[i] = c.previousMessages[n - k + i]
          /\ c.body.message = c.message
          /\ Len(ChatRequest(c.body.message, c.body.context)) <= 5 + 2
          /\ \A i \in 1..n : c.previousMessages[i].n # c.user

\* A sendMessage call was made with more than 5 messages in the list.
C15_Witness ==
  \E j \in 1..Len(hkCalls) :
    /\ hkCalls[j].pc = "await"
    /\ Len(hkCalls[j].previousMessages) > 5

\* What C17 says of one step of the hook.
SpecSendMessageStep ==
  /\ Len(hkCalls') > Len(hkCalls) =>
       LET c == hkCalls'[Len(hkCalls')]
       IN  IF hkAnalysis = NoAnalysis
             THEN /\ c.pc = "returned"
                  /\ hkMessages' = hkMessages
                  /\ hkIsTyping' = hkIsTyping
             ELSE /\ c.pc = "await"
                  /\ Len(hkMessages') = Len(hkMessages) + 1
                  /\ SubSeq(hkMessages', 1, Len(hkMessages)) = hkMessages
                  /\ hkMessages'[Len(hkMessages')].sender = "user"
                  /\ hkMessages'[Len(hkMessages')].text = c.message
  /\ \A i \in 1..Len(hkCalls) :
       /\ hkCalls[i].pc # "await" => hkCalls'[i] = hkCalls[i]
       /\ (hkCalls[i].pc = "await" /\ hkCalls'[i].pc # "await") =>
            /\ hkCalls'[i].pc = "fulfilled"
            /\ Len(hkMessages') = Len(hkMessages) + 1
            /\ SubSeq(hkMessages', 1, Len(hkMessages)) = hkMessages
            /\ hkMessages'[Len(hkMessages')].sender = "assistant"
            /\ hkMessages'[Len(hkMessages')].text =
                 (IF hkCalls'[i].result.kind = "return"
                    THEN hkCalls'[i].result.value
                    ELSE "Sorry, I couldn't process your request. Please try again.")
            /\ hkIsTyping' = FALSE

\* C17: for every sendMessage call made while an analysis is present the
\* user message is appended first, and when the transport call settles
\* exactly one assistant message is appended, with the reply text on success
\* or the fixed apology on any failure; sendMessage never rejects and
\* isTyping is false once it has finished. With no analysis present
\* sendMessage changes nothing.
C17_SendMessageTurn == [][SpecSendMessageStep]_vars

\* A call whose transport failed has finished: the apology is the last
\* message and isTyping is false.
C17_Witness ==
  /\ \E i \in 1..Len(hkCalls) :
       hkCalls[i].pc = "fulfilled" /\ hkCalls[i].result.kind = "throw"
  /\ hkMessages # <<>>
  /\ hkMessages[Len(hkMessages)].text = ApologyText
  /\ ~hkIsTyping

(***************************************************************************)
(* Properties of the speak route (checked under SpecTts).                  *)
(***************************************************************************)
\* The bytes of the chunks in arrival order.
RECURSIVE SpecFlatten(_)
SpecFlatten(chunks) ==
  IF chunks = <<>> THEN <<>> ELSE Head(chunks) \o SpecFlatten(Tail(chunks))

\* The number a sequence of decimal digits denotes.
RECURSIVE SpecDecimal(_)
SpecDecimal(digits) ==
  IF digits = <<>> THEN 0
  ELSE 10 * SpecDecimal(SubSeq(digits, 1, Len(digits) - 1))
       + digits[Len(digits)]

\* C18: getAudioBuffer returns, for every finite sequence of chunks read from
\* the stream, one buffer whose length is the sum of the chunk lengths and
\* whose bytes are the chunks' bytes in arrival order (chunks of 10, 20 and 5
\* bytes give 35 bytes in order); the Content-Length header of the speak
\* route equals that length.
C18_AudioBufferConcatenation ==
  (ttsPc = "done" /\ ttsResp.status = 200) =>
    /\ ttsResp.body = SpecFlatten(ttsChunks)
    /\ Len(ttsResp.body) = Len(SpecFlatten(ttsChunks))
    /\ ttsResp.contentLength # <<>>
    /\ SpecDecimal(ttsResp.contentLength) = Len(ttsResp.body)
    /\ ([i \in 1..Len(ttsChunks) |-> Len(ttsChunks[i])] = <<10, 20, 5>>
          => Len(ttsResp.body) = 35)

\* The stream with chunks of 10, 20 and 5 bytes was answered.
C18_Witness ==
  /\ ttsPc = "done"
  /\ ttsResp.status = 200
  /\ ttsChunks = ExampleStream
  /\ ttsResp.contentLength = <<3, 5>>

(***************************************************************************)
(* Properties of AudioMessage (checked under SpecAudio).                   *)
(***************************************************************************)
\* C19: within one AudioMessage at most one audio element is playing at any
\* time: an element that handlePlay has replaced is paused with its object
\* URL revoked, and never plays afterwards.
C19_OneAudioPlaying ==
  /\ Cardinality({i \in 1..Len(auElems) : auElems[i].playing}) <= 1
  /\ \A i \in 1..Len(auElems) :
       i # auRef => (~auElems[i].playing /\ auElems[i].revoked)

(***************************************************************************)
(* Properties of Home (checked under SpecHome).                            *)
(***************************************************************************)
\* What C20 says of the step in which analyzeImage resolves for a
\* handleUpload call.
SpecUploadSettles ==
  \A i \in 1..Len(hmCalls) :
    (hmCalls[i].pc = "await" /\ hmCalls'[i].pc = "done"
       /\ hmCalls'[i].result.kind = "return") =>
      LET a == hmCalls'[i].result.value
          score == a.scores.vals
      IN  IF \A n \in ScoreNames : score[n] = Num(0)
            THEN /\ hmAnalysis' = NoAnalysis
                 /\ hmImageUrl' = 0
                 /\ (hmImageUrl # 0 => hmImageUrl \in hmRevoked')
                 /\ ~hmIsUploaded'
                 /\ ~hmIsAnalyzing'
                 /\ hmActiveTab' = "upload"
                 /\ hmToasts' = hmToasts + 1
          ELSE IF \E n \in ScoreNames : score[n].v > 0
            THEN /\ hmAnalysis' = a
                 /\ hmActiveTab' = "analysis"
                 /\ hmToasts' = hmToasts
          ELSE TRUE

\* C20: when the analysis returned to handleUpload has all four scores equal
\* to 0 the page treats the image as not a floor plan: analysis is null,
\* imageUrl is revoked and null, isUploaded and isAnalyzing are false,
\* activeTab is "upload" and the rejection toast is shown; when at least one
\* score is greater than 0 the analysis is stored and activeTab becomes
\* "analysis".
C20_AllZeroIsRejected == [][SpecUploadSettles]_vars

\* An upload was answered with the all-zero analysis and rejected.
C20_Witness ==
  /\ hmCalls # <<>>
  /\ hmCalls[1].pc = "done"
  /\ hmCalls[1].result = AnReturn([emptyResponse EXCEPT
                                     !.recommendations = "array1"])
  /\ Len(hmCalls) = 1
  /\ hmToasts = 1
  /\ hmImageUrl = 0
  /\ 1 \in hmRevoked

(***************************************************************************)
(* C24: the service uses the configured timeout and maxRetries whenever    *)
(* the configuration provides them, falls back to 30000 ms and 3 only for  *)
(* a field that is not provided, and a call of a service configured with   *)
(* maxRetries n (n = 0 included) issues at most n + 1 requests.            *)
(***************************************************************************)
C24_ConfiguredValuesAreUsed ==
  /\ timeout = IF config.timeout = NotProvided
                 THEN DefaultTimeout ELSE config.timeout
  /\ maxRetries = IF config.maxRetries = NotProvided
                    THEN DefaultMaxRetries ELSE config.maxRetries
  /\ (config.maxRetries # NotProvided => requests <= config.maxRetries + 1)

(***************************************************************************)
(* C26: when a call of analyzeImage, generateSpeech or sendChatMessage has *)
(* settled, no timeout timer of its attempts is still pending.  An attempt *)
(* is followed by a retry only after its fetch resolved (only an ApiError  *)
(* is retried), and then clearTimeout has run: the timer of the last       *)
(* attempt is the only one that can be pending.                            *)
(***************************************************************************)
C26_NoTimerPendingAtSettle ==
  ApiSettled => timer # "armed"

(***************************************************************************)
(* C23: backoff is linear at every retrying layer.  A step that issues the *)
(* k-th retry of a call (the request after k earlier requests) is taken    *)
(* from delay(), the delays asked for so far are base * 1, ..., base * k,  *)
(* and at least base * k ms have passed in the last one; base is 1000 in   *)
(* ApiService, 500 in AiAnalyzerService and 1000 in AiChatService.         *)
(***************************************************************************)
SpecLinear(ds, base, k) ==
  /\ Len(ds) = k
  /\ \A j \in 1..k : ds[j] = base * j

SpecBackoffStep ==
  /\ (requests > 0 /\ requests' > requests =>
        /\ apc = "delay"
        /\ SpecLinear(delays, 1000, requests)
        /\ waited >= 1000 * requests)
  /\ (anRequests > 0 /\ anRequests' > anRequests =>
        /\ anPc = "delay"
        /\ SpecLinear(anDelays, 500, anRequests)
        /\ anWaited >= 500 * anRequests)
  /\ (chRequests > 0 /\ chRequests' > chRequests =>
        /\ chPc = "delay"
        /\ SpecLinear(chDelays, 1000, chRequests)
        /\ chWaited >= 1000 * chRequests)

C23_LinearBackoff == [][SpecBackoffStep]_vars

\* The third retry of a chat call has been issued, after waits of 1 s, 2 s
\* and 3 s.
C23_Witness ==
  /\ chRequests = 4
  /\ chPc = "create"
  /\ chDelays = <<1000, 2000, 3000>>
  /\ chWaited >= 3000

(***************************************************************************)
(* C22: the messages held in the message list of useFloorPlanChat have     *)
(* pairwise distinct ids, whatever the number and timing of sendMessage    *)
(* calls and replies (two messages created in the same millisecond         *)
(* included).                                                              *)
(***************************************************************************)
C22_MessageIdsDistinct ==
  \A i, j \in 1..Len(hkMessages) :
    i # j => hkMessages[i].id # hkMessages[j].id

(***************************************************************************)
(* C27: isTyping is true whenever at least one sendMessage call is still   *)
(* awaiting its reply, overlapping calls included.                         *)
(***************************************************************************)
C27_TypingWhileAwaiting ==
  (\E i \in 1..Len(hkCalls) : hkCalls[i].pc = "await") => hkIsTyping

(***************************************************************************)
(* C29: once floorplanAnalysis has changed to a new analysis and the list  *)
(* has been reset to the welcome message, no reply or apology of a         *)
(* sendMessage call started before the reset is appended: a call that      *)
(* settles still finds its own user message in the list.                   *)
(***************************************************************************)
SpecReplyInOwnConversation ==
  \A i \in 1..Len(hkCalls) :
    (hkCalls[i].pc = "await" /\ hkCalls'[i].pc = "fulfilled"
       /\ Len(hkMessages') > Len(hkMessages)) =>
      \E k \in 1..Len(hkMessages) : hkMessages[k].n = hkCalls[i].user

C29_NoReplyAfterReset == [][SpecReplyInOwnConversation]_vars

(***************************************************************************)
(* C25: when apiService.analyzeImage rejects, handleUpload releases what   *)
(* it set up: the object URL it created is revoked and the page leaves the *)
(* uploaded state (imageUrl null, isUploaded false, isAnalyzing false).    *)
(***************************************************************************)
SpecUploadFailureReleases ==
  \A i \in 1..Len(hmCalls) :
    (hmCalls[i].pc = "await" /\ hmCalls'[i].pc = "done"
       /\ hmCalls'[i].result.kind = "throw") =>
      /\ hmCalls[i].url \in hmRevoked'
      /\ hmImageUrl' = 0
      /\ ~hmIsUploaded'
      /\ ~hmIsAnalyzing'

C25_UploadFailureReleases == [][SpecUploadFailureReleases]_vars

(***************************************************************************)
(* C28: whenever analysis and imageUrl are both non-null, the analysis is  *)
(* the result of the handleUpload call that created the URL imageUrl       *)
(* holds, after any sequence of uploads, resets and analysis outcomes.     *)
(***************************************************************************)
C28_AnalysisMatchesImage ==
  (hmAnalysis # NoAnalysis /\ hmImageUrl # 0) =>
    \E i \in 1..Len(hmCalls) :
      /\ hmCalls[i].url = hmImageUrl
      /\ hmCalls[i].result = AnReturn(hmAnalysis)

(***************************************************************************)
(* C21: the upload UI and the service accept the same files: a file chosen *)
(* in the upload area reaches the analyze request (a fetch is issued for   *)
(* it) if and only if its type is image/jpeg, image/png or image/webp and  *)
(* its size is at most 5 MiB; a WebP image of at most 5 MiB is sent.       *)
(***************************************************************************)
C21_UiAndServiceAcceptSameFiles ==
  upFile # NoFile => ((requests > 0) <=> SpecFileOk(upFile))

(***************************************************************************)
(* C30: after an AudioMessage is unmounted none of its audio elements is   *)
(* playing, and none starts playing later, a generateSpeech request in     *)
(* flight at the moment of unmount included.                               *)
(***************************************************************************)
C30_SilentAfterUnmount ==
  ~auMounted => \A i \in 1..Len(auElems) : ~auElems[i].playing

====
